---- MODULE Spec2Model ----
(***************************************************************************)
(* Verification model of the LifeVault provenance ledger (the MemoryVault  *)
(* contract): content records, the per-owner index, ownership transfer and *)
(* the event stream.  Every external function of the contract runs as one  *)
(* transaction: it either commits all of its writes or reverts all of them.*)
(***************************************************************************)
EXTENDS Integers, Sequences, FiniteSets, TLC

\* ------------------------------------------------------------------ bounds
MaxRecords == 2       \* successful storeMemory calls explored
MaxEvents == 3        \* committed transactions (events emitted) explored
MaxTime == 2          \* block timestamps explored: 1..MaxTime
MaxInvocations == 2   \* createMemory requests explored

\* ------------------------------------------------------------------ domains
ZeroAddress == "0x0"                       \* address(0)
Callers == {"0xA", "0xB"}                  \* msg.sender of a transaction
AllAddresses == Callers \cup {ZeroAddress} \* any value of type address
IpfsHashes == {"", "QmX", "QmY"}           \* string arguments, "" is the empty string
MemoryIds == 0..(MaxRecords + 1)           \* uint256 arguments explored

\* struct Memory, and the value a mapping slot holds before it is written
Memory(ipfsHash, owner, timestamp, exists) ==
  [ipfsHash |-> ipfsHash, owner |-> owner, timestamp |-> timestamp, exists |-> exists]

DefaultMemory == Memory("", ZeroAddress, 0, FALSE)

VARIABLES
  memoryCounter,   \* uint256 _memoryCounter
  memories,        \* mapping(uint256 => Memory) _memories
  userMemories,    \* mapping(address => uint256[]) _userMemories
  events,          \* the contract's event log, in commit order
  blockTimestamp,  \* block.timestamp of the block being built
  call,            \* the last transaction executed: function, msg.sender, arguments
  result           \* its outcome: "ok" and the return value, or the revert reason

\* the anchoring service (AptosService), its callers and the chain it talks to
VARIABLES
  env,            \* process.env: APTOS_PRIVATE_KEY, APTOS_MODULE_ADDRESS
  aptos,          \* this.aptos
  masterAccount,  \* this.masterAccount
  moduleAddress,  \* this.moduleAddress
  initialized,    \* this.initialized
  inv,            \* the createMemory requests: position, locals, transport calls made
  accountSeq,     \* the chain: committed sequence number of every account
  mempool,        \* the chain: transactions accepted and not yet committed
  committed,      \* the chain: transactions committed, in order, with their outcome
  docs,           \* the Memory collection
  userStats       \* the User document of the requesting user

ledgerVars == <<memoryCounter, memories, userMemories, events>>
contractVars == <<memoryCounter, memories, userMemories, events, blockTimestamp, call, result>>
serviceVars == <<env, aptos, masterAccount, moduleAddress, initialized>>
chainVars == <<accountSeq, mempool, committed>>
dbVars == <<docs, userStats>>
anchorVars == <<serviceVars, inv, chainVars, dbVars>>
VARIABLES
  auth,            \* POST /api/auth/wallet: the attempts, each with its request and position
  users,           \* the User collection
  probe            \* the last call of a verifier function: its arguments and what it gave

authVars == <<auth, users, probe>>
vars == <<contractVars, anchorVars, authVars>>

Range(s) == {s[i] : i \in 1..Len(s)}

\* ------------------------------------------------------------------ events
MemoryStored(memoryId, owner, ipfsHash, timestamp) ==
  [type |-> "MemoryStored", memoryId |-> memoryId, owner |-> owner,
   ipfsHash |-> ipfsHash, timestamp |-> timestamp]

\* variant of the emit: from and to are swapped
MemoryTransferred_Swapped(memoryId, from, to) ==
  [type |-> "MemoryTransferred", memoryId |-> memoryId, from |-> to, to |-> from]

MemoryTransferred(memoryId, from, to) ==
  [type |-> "MemoryTransferred", memoryId |-> memoryId, from |-> from, to |-> to]

\* ------------------------------------------------------------------ calls
StoreCall(sender, ipfsHash) ==
  [op |-> "storeMemory", sender |-> sender, ipfsHash |-> ipfsHash,
   memoryId |-> 0, newOwner |-> ZeroAddress]

TransferCall(sender, memoryId, newOwner) ==
  [op |-> "transferMemory", sender |-> sender, ipfsHash |-> "",
   memoryId |-> memoryId, newOwner |-> newOwner]

NoCall ==
  [op |-> "none", sender |-> ZeroAddress, ipfsHash |-> "",
   memoryId |-> 0, newOwner |-> ZeroAddress]

Ok(value) == [status |-> "ok", value |-> value]
Revert(reason) == [status |-> reason, value |-> 0]

\* ------------------------------------------------------------------ views
\* variant of the view: the exists check is missing
getMemory_NoCheck(memoryId) ==
  Ok(<<memories[memoryId].ipfsHash, memories[memoryId].owner,
       memories[memoryId].timestamp>>)

getMemory(memoryId) ==
  IF ~memories[memoryId].exists
  THEN Revert("Memory does not exist")
  ELSE Ok(<<memories[memoryId].ipfsHash, memories[memoryId].owner,
            memories[memoryId].timestamp>>)

getUserMemories(user) == userMemories[user]

\* variant of the view: the exists check is missing
verifyOwnership_NoExists(memoryId, user) == memories[memoryId].owner = user

verifyOwnership(memoryId, user) ==
  memories[memoryId].exists /\ memories[memoryId].owner = user

getTotalMemories == memoryCounter

getUserMemoryCount(user) == Len(userMemories[user])

\* ------------------------------------------------------------------ state
\* the types of the contract's storage, of its event log and of a transaction
Events ==
  [type : {"MemoryStored"}, memoryId : MemoryIds, owner : AllAddresses,
   ipfsHash : IpfsHashes, timestamp : 1..MaxTime]
  \cup [type : {"MemoryTransferred"}, memoryId : MemoryIds, from : AllAddresses,
        to : AllAddresses]

TypeOK ==
  /\ memoryCounter \in 0..MaxRecords
  /\ memories \in [MemoryIds -> [ipfsHash : IpfsHashes, owner : AllAddresses,
                                 timestamp : 0..MaxTime, exists : BOOLEAN]]
  /\ DOMAIN userMemories = AllAddresses
  /\ \A a \in AllAddresses :
       /\ userMemories[a] \in Seq(MemoryIds)
       /\ Len(userMemories[a]) <= MaxRecords
  /\ Len(events) <= MaxEvents
  /\ \A i \in 1..Len(events) : events[i] \in Events
  /\ blockTimestamp \in 1..MaxTime
  /\ call.op \in {"none", "storeMemory", "transferMemory"}
  /\ call.sender \in AllAddresses
  /\ result.status \in {"ok", "Memory does not exist", "Not the owner",
                        "IPFS hash cannot be empty", "Invalid address",
                        "Cannot transfer to self"}

\* ------------------------------------------------------------------ anchoring: values
Null == "null"                              \* null / undefined
Invocations == 1..MaxInvocations
PinnedHashes == {"QmX"}
UserAddresses == {"0xB"}
FileSizes == {2}                            \* Buffer.byteLength(fileData, 'base64')
ModuleAddress == "0xMOD"                    \* a configured APTOS_MODULE_ADDRESS
\* process.env: APTOS_PRIVATE_KEY is absent, well-formed or malformed;
\* APTOS_MODULE_ADDRESS is absent or set
Envs == [privateKey : {"none", "valid", "invalid"}, moduleAddress : {Null, ModuleAddress}]
DefaultEnv == [privateKey |-> "valid", moduleAddress |-> ModuleAddress]
KeyAccount == "0xA"                         \* the account of APTOS_PRIVATE_KEY

\* a transaction as built by transaction.build.simple, with the account that signed it
Transaction(sender, seq, ipfsHash, i) ==
  [sender |-> sender, seq |-> seq, function |-> "store_memory",
   ipfsHash |-> ipfsHash, inv |-> i, signer |-> Null]

NoTx ==
  [sender |-> Null, seq |-> 0, function |-> "none", ipfsHash |-> "", inv |-> 0,
   signer |-> Null]

\* pendingTx.hash
TxHash(tx) == <<"0x", tx.sender, tx.seq, tx.inv>>
NoHash == <<>>

\* what storeMemoryOnChain gave its caller: nothing yet, a receipt, or an Error
NoOutcome ==
  [kind |-> "none", success |-> FALSE, mock |-> FALSE, txHash |-> NoHash,
   txVersion |-> 0, message |-> <<>>]

\* a createMemory request before it arrives
NewInvocation ==
  [pc |-> "new", storeOnChain |-> FALSE, userAddress |-> Null, fileSize |-> 0,
   ipfsHash |-> "", sender |-> Null, tx |-> NoTx, outcome |-> NoOutcome,
   rpc |-> <<>>, status |-> 0]

NoDoc ==
  [inv |-> 0, ipfsHash |-> "", txHash |-> NoHash, txVersion |-> 0,
   isOnChain |-> FALSE, fileSize |-> 0]

\* ================================================================== wallet authentication
\* Strings are sequences: a hex string of its characters, a message of its
\* pieces of text.  Bytes are sequences of 0..255.

MaxAttempts == 2      \* POST /api/auth/wallet requests explored

SignatureLength == 64     \* bytes of an Ed25519 signature
PublicKeyLength == 32     \* bytes of an Ed25519 public key
AddressLength == 66       \* characters of an address: '0x' and 64 hex digits

\* undefined, null or '': a request field that is absent, a function that gave
\* null; the code only tests such a value for truthiness
NoString == <<>>

LowerDigits == <<"0", "1", "2", "3", "4", "5", "6", "7", "8", "9", "a", "b", "c", "d", "e", "f">>
UpperDigits == <<"0", "1", "2", "3", "4", "5", "6", "7", "8", "9", "A", "B", "C", "D", "E", "F">>
HexDigits == Range(LowerDigits) \cup Range(UpperDigits)

\* the value of a hex digit, either case
DigitValue(c) == (CHOOSE k \in 1..16 : LowerDigits[k] = c \/ UpperDigits[k] = c) - 1

\* what a try block ends with: a value, or a thrown Error
Return(value) == [threw |-> FALSE, value |-> value]
Throw(message) == [threw |-> TRUE, value |-> message]

\* parseInt(hexString.substr(i, 2), 16): the longest prefix of hex digits after an
\* optional sign, NaN when there is none
parseInt(c1, c2) ==
  IF c1 \in {"-", "+"}
  THEN IF c2 \in HexDigits
       THEN [nan |-> FALSE, n |-> IF c1 = "-" THEN 0 - DigitValue(c2) ELSE DigitValue(c2)]
       ELSE [nan |-> TRUE, n |-> 0]
  ELSE IF c1 \notin HexDigits THEN [nan |-> TRUE, n |-> 0]
  ELSE IF c2 \notin HexDigits THEN [nan |-> FALSE, n |-> DigitValue(c1)]
  ELSE [nan |-> FALSE, n |-> 16 * DigitValue(c1) + DigitValue(c2)]

\* bytes[i / 2] = ...: a Uint8Array element stores NaN as 0 and a number modulo 256
toUint8(number) == IF number.nan THEN 0 ELSE number.n % 256

\* function hexToUint8Array(hexString)
hexToUint8Array(hexString) ==
  IF Len(hexString) % 2 # 0
  THEN Throw("Invalid hex string")
  ELSE Return([k \in 1..(Len(hexString) \div 2) |->
                 toUint8(parseInt(hexString[2 * k - 1], hexString[2 * k]))])

\* s.startsWith('0x') ? s.slice(2) : s
startsWith0x(s) == Len(s) >= 2 /\ s[1] = "0" /\ s[2] = "x"
stripPrefix(s) == IF startsWith0x(s) THEN SubSeq(s, 3, Len(s)) ELSE s

\* lowercase hex of bytes, as js-sha3 prints a digest
toHex(bytes) ==
  [k \in 1..(2 * Len(bytes)) |->
     LowerDigits[(IF k % 2 = 1 THEN bytes[(k + 1) \div 2] \div 16
                               ELSE bytes[k \div 2] % 16) + 1]]

\* String.prototype.toLowerCase on the characters explored
toLowerCase(s) ==
  [k \in 1..Len(s) |->
     IF \E d \in 11..16 : UpperDigits[d] = s[k]
     THEN LowerDigits[CHOOSE d \in 11..16 : UpperDigits[d] = s[k]]
     ELSE IF s[k] = "X" THEN "x" ELSE s[k]]

\* the pieces of text messages are made of, and new TextEncoder().encode
Pieces ==
  <<"login", "pay", "n1", "n2", "APTOS\nmessage: ", "\nnonce: ", "\nchainId: 1",
    "\nchainId: 2", "\nchainId: 3">>
encode(text) == [k \in 1..Len(text) |-> CHOOSE c \in 1..Len(Pieces) : Pieces[c] = text[k]]

\* `APTOS\nmessage: ${message}\nnonce: ${nonce}`
PetraFormat(message, nonce) == <<"APTOS\nmessage: ">> \o message \o <<"\nnonce: ">> \o nonce

\* variant of the formats tried: the raw message only
messageFormats_RawOnly(message, nonce) == <<message>>

\* variant of the formats tried: a third chain-qualified template is tried too
messageFormats_Chain3(message, nonce) ==
  <<message, PetraFormat(message, nonce),
    PetraFormat(message, nonce) \o <<"\nchainId: 1">>,
    PetraFormat(message, nonce) \o <<"\nchainId: 2">>,
    PetraFormat(message, nonce) \o <<"\nchainId: 3">>>>

\* const messageFormats = [...] of verifySignatureAlternative
messageFormats(message, nonce) ==
  <<message,
    PetraFormat(message, nonce),
    PetraFormat(message, nonce) \o <<"\nchainId: 1">>,
    PetraFormat(message, nonce) \o <<"\nchainId: 2">>>>

\* Ed25519: the one signature a key gives a message (signing is deterministic);
\* the key pair is named by its public key
Ed25519Sign(publicKeyBytes, messageBytes) ==
  [k \in 1..SignatureLength |->
     IF k = 1 THEN publicKeyBytes[1]
     ELSE IF k = 2 THEN Len(messageBytes)
     ELSE IF k - 2 <= Len(messageBytes) THEN messageBytes[k - 2]
     ELSE 0]

\* nacl.sign.detached.verify(msg, sig, publicKey): throws on a wrong size
naclVerify(messageBytes, signatureBytes, publicKeyBytes) ==
  IF Len(signatureBytes) # SignatureLength THEN Throw("bad signature size")
  ELSE IF Len(publicKeyBytes) # PublicKeyLength THEN Throw("bad public key size")
  ELSE Return(signatureBytes = Ed25519Sign(publicKeyBytes, messageBytes))

\* sha3_256(data): a digest of 32 bytes printed as 64 lowercase hex digits
Digest(data) ==
  [k \in 1..PublicKeyLength |-> (data[((k - 1) % Len(data)) + 1] + k) % 256]
sha3_256(data) == toHex(Digest(data))

\* function verifyPetraSignature(fullMessage, signature, publicKey), the try
\* block: what it returns or throws into the catch
verifyPetraTry(fullMessage, signature, publicKey) ==
  LET signatureBytes == hexToUint8Array(stripPrefix(signature))
      publicKeyBytes == hexToUint8Array(stripPrefix(publicKey))
  IN IF signatureBytes.threw THEN signatureBytes
     ELSE IF publicKeyBytes.threw THEN publicKeyBytes
     ELSE naclVerify(encode(fullMessage), signatureBytes.value, publicKeyBytes.value)

\* function verifyPetraSignature: catch (error) { return false }
verifyPetraSignature(fullMessage, signature, publicKey) ==
  LET tried == verifyPetraTry(fullMessage, signature, publicKey)
  IN IF tried.threw THEN Return(FALSE) ELSE tried

\* function verifySignatureAlternative(message, signature, publicKey, nonce)
verifySignatureAlternative(message, signature, publicKey, nonce) ==
  LET signatureBytes == hexToUint8Array(stripPrefix(signature))
      publicKeyBytes == hexToUint8Array(stripPrefix(publicKey))
      formats == messageFormats(message, nonce)
      isValid(msg) ==
        LET verified == naclVerify(encode(msg), signatureBytes.value, publicKeyBytes.value)
        IN ~verified.threw /\ verified.value
  IN IF signatureBytes.threw \/ publicKeyBytes.threw THEN FALSE
     ELSE \E f \in 1..Len(formats) : isValid(formats[f])

\* for (const msg of messageFormats): the formats verified, up to the first
\* that verifies (return true) or to the end of the list
formatsTried(message, signature, publicKey, nonce) ==
  LET signatureBytes == hexToUint8Array(stripPrefix(signature))
      publicKeyBytes == hexToUint8Array(stripPrefix(publicKey))
      formats == messageFormats(message, nonce)
      isValid(msg) ==
        LET verified == naclVerify(encode(msg), signatureBytes.value, publicKeyBytes.value)
        IN ~verified.threw /\ verified.value
      valid == [f \in 1..Len(formats) |-> isValid(formats[f])]
      last == IF \E f \in 1..Len(formats) : valid[f]
              THEN CHOOSE f \in 1..Len(formats) :
                     valid[f] /\ \A g \in 1..(f - 1) : ~valid[g]
              ELSE Len(formats)
  IN IF signatureBytes.threw \/ publicKeyBytes.threw THEN <<>>
     ELSE SubSeq(formats, 1, last)

\* function validateSignatureStructure(signature, publicKey)
validateSignatureStructure(signature, publicKey) ==
  LET sigBytes == hexToUint8Array(stripPrefix(signature))
      pubKeyBytes == hexToUint8Array(stripPrefix(publicKey))
  IN IF sigBytes.threw \/ pubKeyBytes.threw THEN FALSE
     ELSE Len(sigBytes.value) = SignatureLength /\ Len(pubKeyBytes.value) = PublicKeyLength

\* variant of deriveAddressFromPublicKey: the prefix is not removed
deriveAddressFromPublicKey_NoStrip(publicKey) ==
  LET pubKeyBytes == hexToUint8Array(publicKey)
  IN IF pubKeyBytes.threw THEN NoString
     ELSE <<"0", "x">> \o sha3_256(Append(pubKeyBytes.value, 0))

\* function deriveAddressFromPublicKey(publicKey): null when the key does not decode
deriveAddressFromPublicKey(publicKey) ==
  LET pubKeyBytes == hexToUint8Array(stripPrefix(publicKey))
  IN IF pubKeyBytes.threw THEN NoString
     ELSE <<"0", "x">> \o sha3_256(Append(pubKeyBytes.value, 0))

\* ------------------------------------------------------------------ wallet authentication: values
\* two key pairs, named by their public keys
KeyBytes1 == [k \in 1..PublicKeyLength |-> k]
KeyBytes2 == [k \in 1..PublicKeyLength |-> 160 + k]
PublicKey1 == toHex(KeyBytes1)
PublicKey2 == toHex(KeyBytes2)

\* the signature, in hex, of a key over a text
SignatureOf(keyBytes, text) == toHex(Ed25519Sign(keyBytes, encode(text)))

\* String.prototype.toUpperCase on a lowercase hex string
toUpperCase(s) == [k \in 1..Len(s) |-> UpperDigits[DigitValue(s[k]) + 1]]

Login == <<"login">>
Nonce1 == <<"n1">>
Nonce2 == <<"n2">>

Attempts == 1..MaxAttempts

\* req.body of POST /api/auth/wallet
Body(address, publicKey, signature, message, nonce, fullMessage) ==
  [address |-> address, publicKey |-> publicKey, signature |-> signature,
   message |-> message, nonce |-> nonce, fullMessage |-> fullMessage]

Address1 == deriveAddressFromPublicKey(PublicKey1)       \* the address of key 1
Address2 == deriveAddressFromPublicKey(PublicKey2)       \* a well-formed address of another key
ShortAddress == <<"0", "x", "a", "b">>                    \* not of the fixed length
PetraSignature == SignatureOf(KeyBytes1, PetraFormat(Login, Nonce1))
OtherSignature == SignatureOf(KeyBytes2, PetraFormat(Login, Nonce1))  \* 64 bytes, of another key
ShortSignature == <<"a", "b", "c", "d">>                  \* 2 bytes

\* the wallet's request: key 1 signed "login" with nonce "n1" in the Petra format
GoodRequest == Body(Address1, PublicKey1, PetraSignature, Login, Nonce1, NoString)

\* the requests explored: the wallet's request, and requests that differ from it
\* in the address, in the signature, in the challenge, or in a missing field
WalletRequests ==
  {GoodRequest,
   Body(Address1, PublicKey1, PetraSignature, NoString, NoString, PetraFormat(Login, Nonce1)),
   Body(Address2, PublicKey1, PetraSignature, Login, Nonce1, NoString),
   Body(Address1, PublicKey1, PetraSignature, Login, Nonce2, NoString),
   Body(Address1, PublicKey1, OtherSignature, Login, Nonce1, NoString),
   Body(Address2, PublicKey1, OtherSignature, Login, Nonce1, NoString),
   Body(ShortAddress, PublicKey1, OtherSignature, Login, Nonce1, NoString),
   Body(Address1, PublicKey1, ShortSignature, Login, Nonce1, NoString),
   Body(Address2, PublicKey1, ShortSignature, Login, Nonce1, NoString),
   Body(Address1, PublicKey1, OtherSignature, NoString, NoString, NoString),
   Body(NoString, PublicKey1, PetraSignature, Login, Nonce1, NoString),
   Body(Address1, NoString, PetraSignature, Login, Nonce1, NoString),
   Body(Address1, PublicKey1, NoString, Login, Nonce1, NoString)}

NoRequest == Body(NoString, NoString, NoString, NoString, NoString, NoString)

\* what the route answered: res.status(...).json(...), or next(error)
NoResponse == [status |-> 0, success |-> FALSE, message |-> "none"]

\* no user document / no token
NoUser == [id |-> 0, aptosAddress |-> NoString, aptosPublicKey |-> NoString, lastLogin |-> 0]
NoToken == [id |-> 0]

\* a wallet request before it arrives
NewAttempt ==
  [pc |-> "new", req |-> NoRequest, isValid |-> FALSE, method |-> "none",
   trace |-> <<>>, encodings |-> <<>>, user |-> NoUser, response |-> NoResponse,
   linker |-> 0]

\* a call of a verifier function: its arguments, how the signature passed was
\* made, what the call gave, and the latest deriveAddressFromPublicKey call before it
NoProbe ==
  [fn |-> "none", args |-> <<>>, made |-> <<>>, out |-> Return(FALSE), derived |-> <<>>]

\* an empty User collection and idle routes
AuthInit ==
  /\ auth = [a \in Attempts |-> NewAttempt]
  /\ users = <<>>
  /\ probe = NoProbe

\* ------------------------------------------------------------------ Init
LedgerInit ==
  /\ memoryCounter = 0
  /\ memories = [id \in MemoryIds |-> DefaultMemory]
  /\ userMemories = [a \in AllAddresses |-> <<>>]
  /\ events = <<>>
  /\ blockTimestamp = 1
  /\ call = NoCall
  /\ result = Ok(0)

\* the AptosService constructor, an idle server and a chain without transactions
AnchorInit(e) ==
  /\ env = e
  /\ aptos = Null
  /\ masterAccount = Null
  /\ moduleAddress = Null
  /\ initialized = FALSE
  /\ inv = [i \in Invocations |-> NewInvocation]
  /\ accountSeq = [a \in Callers |-> 0]
  /\ mempool = {}
  /\ committed = <<>>
  /\ docs = <<>>
  /\ userStats = [totalMemories |-> 0, storageUsed |-> 0]

Init ==
  /\ LedgerInit
  /\ AnchorInit(DefaultEnv)
  /\ AuthInit

\* ------------------------------------------------------------------ storeMemory
\* variant of the require: the check is missing
storeRequire_Missing(ipfsHash) == "ok"

\* require(bytes(ipfsHash).length > 0, "IPFS hash cannot be empty")
storeRequire(ipfsHash) ==
  IF ipfsHash = "" THEN "IPFS hash cannot be empty" ELSE "ok"

\* variants of the counter step: a double increment, and a missing increment
incrementCounter_Twice(counter) == counter + 2

incrementCounter_Missing(counter) == counter

\* _memoryCounter++
incrementCounter(counter) == counter + 1

\* variant of the record write: the slot is the counter before the increment
writeMemory_OffByOne(mems, memoryId, ipfsHash, sender, timestamp) ==
  [mems EXCEPT ![memoryId - 1] = Memory(ipfsHash, sender, timestamp, TRUE)]

\* _memories[memoryId] = Memory({ipfsHash, owner: msg.sender, timestamp: block.timestamp, exists: true})
writeMemory(mems, memoryId, ipfsHash, sender, timestamp) ==
  [mems EXCEPT ![memoryId] = Memory(ipfsHash, sender, timestamp, TRUE)]

\* variant of the push: the id is appended twice
pushUserMemory_Twice(userMems, user, memoryId) ==
  [userMems EXCEPT ![user] = Append(Append(@, memoryId), memoryId)]

\* variant of the push: nothing is appended
pushUserMemory_Missing(userMems, user, memoryId) == userMems

\* _userMemories[user].push(memoryId)
pushUserMemory(userMems, user, memoryId) ==
  [userMems EXCEPT ![user] = Append(@, memoryId)]

storeMemory(sender, ipfsHash) ==
  LET status == storeRequire(ipfsHash)
      counter1 == incrementCounter(memoryCounter)
      memoryId == counter1
  IN /\ call' = StoreCall(sender, ipfsHash)
     /\ UNCHANGED blockTimestamp
     /\ IF status # "ok"
        THEN /\ result' = Revert(status)
             /\ UNCHANGED ledgerVars
        ELSE /\ memoryCounter < MaxRecords
             /\ Len(events) < MaxEvents
             /\ memoryCounter' = counter1
             /\ memories' = writeMemory(memories, memoryId, ipfsHash, sender, blockTimestamp)
             /\ userMemories' = pushUserMemory(userMemories, sender, memoryId)
             /\ events' = Append(events, MemoryStored(memoryId, sender, ipfsHash, blockTimestamp))
             /\ result' = Ok(memoryId)

\* ------------------------------------------------------------------ transferMemory
\* variant of the modifier: the owner check is missing
onlyOwner_NoOwnerCheck(sender, memoryId) ==
  IF ~memories[memoryId].exists THEN "Memory does not exist" ELSE "ok"

\* variant of the requires: the self-transfer check is missing
transferRequire_NoSelfCheck(sender, newOwner) ==
  IF newOwner = ZeroAddress THEN "Invalid address" ELSE "ok"

\* modifier onlyOwner(memoryId)
onlyOwner(sender, memoryId) ==
  IF ~memories[memoryId].exists THEN "Memory does not exist"
  ELSE IF memories[memoryId].owner # sender THEN "Not the owner"
  ELSE "ok"

\* require(newOwner != address(0)); require(newOwner != msg.sender)
transferRequire(sender, newOwner) ==
  IF newOwner = ZeroAddress THEN "Invalid address"
  ELSE IF newOwner = sender THEN "Cannot transfer to self"
  ELSE "ok"

\* the first index of userMems holding memoryId, 0 when there is none
firstIndexOf(userMems, memoryId) ==
  IF memoryId \in Range(userMems)
  THEN CHOOSE i \in 1..Len(userMems) :
         /\ userMems[i] = memoryId
         /\ \A j \in 1..(i - 1) : userMems[j] # memoryId
  ELSE 0

\* variant of the loop: the swap without the pop
swapAndPop_NoPop(userMems, memoryId) ==
  IF memoryId \in Range(userMems)
  THEN [userMems EXCEPT ![CHOOSE i \in 1..Len(userMems) : userMems[i] = memoryId] =
          userMems[Len(userMems)]]
  ELSE userMems

\* variant of the loop: pop without the swap
swapAndPop_NoSwap(userMems, memoryId) ==
  IF memoryId \in Range(userMems)
  THEN SubSeq(userMems, 1, Len(userMems) - 1)
  ELSE userMems

\* the loop of _removeFromUserMemories on one bucket: swap with last, pop, break
swapAndPop(userMems, memoryId) ==
  LET i == firstIndexOf(userMems, memoryId)
  IN IF i = 0
     THEN userMems
     ELSE SubSeq([userMems EXCEPT ![i] = userMems[Len(userMems)]], 1, Len(userMems) - 1)

\* variant of the removal: the old bucket is left alone
removeFromUserMemories_Missing(userMems, user, memoryId) == userMems

removeFromUserMemories(userMems, user, memoryId) ==
  [userMems EXCEPT ![user] = swapAndPop(@, memoryId)]

\* variant of the owner update: the whole struct is written anew
setOwner_Overwrite(mems, memoryId, newOwner) ==
  [mems EXCEPT ![memoryId] = Memory("", newOwner, 0, TRUE)]

\* variant of the owner update: the owner field is not written
setOwner_Missing(mems, memoryId, newOwner) == mems

\* _memories[memoryId].owner = newOwner
setOwner(mems, memoryId, newOwner) ==
  [mems EXCEPT ![memoryId].owner = newOwner]

transferMemory(sender, memoryId, newOwner) ==
  LET modifier == onlyOwner(sender, memoryId)
      status == IF modifier # "ok" THEN modifier ELSE transferRequire(sender, newOwner)
      userMems1 == removeFromUserMemories(userMemories, sender, memoryId)
      mems1 == setOwner(memories, memoryId, newOwner)
      userMems2 == pushUserMemory(userMems1, newOwner, memoryId)
  IN /\ call' = TransferCall(sender, memoryId, newOwner)
     /\ UNCHANGED blockTimestamp
     /\ IF status # "ok"
        THEN /\ result' = Revert(status)
             /\ UNCHANGED ledgerVars
        ELSE /\ Len(events) < MaxEvents
             /\ userMemories' = userMems2
             /\ memories' = mems1
             /\ events' = Append(events, MemoryTransferred(memoryId, sender, newOwner))
             /\ result' = Ok(0)
             /\ UNCHANGED memoryCounter

\* ------------------------------------------------------------------ environment
\* a new block is built: block.timestamp never decreases
NewBlock ==
  /\ blockTimestamp < MaxTime
  /\ blockTimestamp' = blockTimestamp + 1
  /\ UNCHANGED <<ledgerVars, call, result>>

Next ==
  \/ \E sender \in Callers, ipfsHash \in IpfsHashes :
       storeMemory(sender, ipfsHash) /\ UNCHANGED <<anchorVars, authVars>>
  \/ \E sender \in Callers, memoryId \in MemoryIds, newOwner \in AllAddresses :
       transferMemory(sender, memoryId, newOwner) /\ UNCHANGED <<anchorVars, authVars>>
  \/ NewBlock /\ UNCHANGED <<anchorVars, authVars>>

Spec == Init /\ [][Next]_vars

\* ================================================================== anchoring
\* AptosService.storeMemoryOnChain and its caller createMemory.  The server is
\* single-threaded: a step runs one request from one await to the next.

\* initialize: the account loaded from APTOS_PRIVATE_KEY, or Account.generate()
\* (a fresh key pair: any account) when the key is absent or malformed
LoadedAccounts(e) ==
  IF e.privateKey = "valid" THEN {KeyAccount} ELSE Callers

\* the mock transaction returned when no module address is configured
MockReceipt(ipfsHash) ==
  [kind |-> "receipt", success |-> TRUE, mock |-> TRUE, txHash |-> <<"mock_">>,
   txVersion |-> 0, message |-> <<"Module not deployed - mock transaction">>]

\* the receipt returned after waitForTransaction
RealReceipt(tx, version) ==
  [kind |-> "receipt", success |-> TRUE, mock |-> FALSE, txHash |-> TxHash(tx),
   txVersion |-> version, message |-> <<>>]

\* variant of the catch: the failure is returned as a result, not thrown
storeCatch_Returns(reason) ==
  [kind |-> "receipt", success |-> FALSE, mock |-> FALSE, txHash |-> NoHash,
   txVersion |-> 0, message |-> <<reason>>]

\* catch (error) { throw new Error(`Aptos transaction failed: ${error.message}`) }
storeCatch(reason) ==
  [kind |-> "error", success |-> FALSE, mock |-> FALSE, txHash |-> NoHash,
   txVersion |-> 0, message |-> <<"Aptos transaction failed: ", reason>>]

\* Memory.create({...}): the document createMemory builds from the receipt
MemoryDoc(i, r) ==
  [inv |-> i, ipfsHash |-> r.ipfsHash,
   txHash |-> IF r.outcome.kind = "receipt" THEN r.outcome.txHash ELSE NoHash,
   txVersion |-> IF r.outcome.kind = "receipt" THEN r.outcome.txVersion ELSE 0,
   isOnChain |-> (r.outcome.kind = "receipt" /\ r.outcome.success),
   fileSize |-> r.fileSize]

\* verifyMemory: a document is looked up on the ledger by its txHash unless
\* !memory.isOnChain || !memory.txHash
verifyMemory(doc) ==
  IF ~doc.isOnChain \/ doc.txHash = NoHash THEN "not on chain" ELSE "getTransaction"

\* createMemory goes on after aptosResult is known: Memory.create is called
persistCall(r, outcome) ==
  [r EXCEPT !.pc = "persist", !.outcome = outcome]

\* variant of createMemory: it goes on to Memory.create after a thrown error too
storeEnded_Persist(r, outcome) == persistCall(r, outcome)

\* storeMemoryOnChain returns a receipt to createMemory, which goes on to
\* Memory.create, or throws an Error, which createMemory's catch passes to next()
storeEnded(r, outcome) ==
  IF outcome.kind = "receipt" THEN persistCall(r, outcome)
  ELSE [r EXCEPT !.pc = "error", !.outcome = outcome, !.status = 500]

\* variant of the failure path: the transaction is built again
storeFailed_Retry(r, reason) ==
  [r EXCEPT !.pc = "build", !.rpc = Append(@, "build")]

\* a ledger call of storeMemoryOnChain rejected: the try block is left for the catch
storeFailed(r, reason) == storeEnded(r, storeCatch(reason))

\* variant of the build call: the user's address is the sender when there is one
storeAfterInit_UserSender(r) ==
  IF moduleAddress = Null
  THEN storeEnded(r, MockReceipt(r.ipfsHash))
  ELSE [r EXCEPT !.pc = "build",
                 !.sender = IF r.userAddress # Null THEN r.userAddress ELSE masterAccount,
                 !.rpc = Append(@, "build")]

\* storeMemoryOnChain from the module check to its first await
storeAfterInit(r) ==
  IF moduleAddress = Null
  THEN storeEnded(r, MockReceipt(r.ipfsHash))
  ELSE [r EXCEPT !.pc = "build", !.sender = masterAccount, !.rpc = Append(@, "build")]

\* storeMemoryOnChain from its call to its first await
storeEnter(i, r) ==
  IF ~initialized
  THEN \E account \in LoadedAccounts(env) :
         /\ aptos' = "client"
         /\ masterAccount' = account
         /\ moduleAddress' = env.moduleAddress
         /\ inv' = [inv EXCEPT ![i] =
                      [r EXCEPT !.pc = "init", !.rpc = Append(@, "getLedgerInfo")]]
  ELSE /\ inv' = [inv EXCEPT ![i] = storeAfterInit(r)]
       /\ UNCHANGED <<aptos, masterAccount, moduleAddress>>

\* POST /api/memories arrives: validation, then ipfsService.pinBase64 is awaited
Request(i, valid, storeOnChain, userAddress, fileSize) ==
  /\ inv[i].pc = "new"
  /\ \A j \in 1..(i - 1) : inv[j].pc # "new"
  /\ inv' = [inv EXCEPT ![i] =
       IF valid
       THEN [@ EXCEPT !.pc = "ipfs", !.storeOnChain = storeOnChain,
                      !.userAddress = userAddress, !.fileSize = fileSize]
       ELSE [@ EXCEPT !.pc = "rejected", !.status = 400]]
  /\ UNCHANGED <<contractVars, serviceVars, chainVars, dbVars, authVars>>

\* pinBase64 resolved: storeMemoryOnChain is called when storeOnChain is set
IpfsReturn(i, ipfsHash) ==
  /\ inv[i].pc = "ipfs"
  /\ LET r == [inv[i] EXCEPT !.ipfsHash = ipfsHash]
     IN IF r.storeOnChain
        THEN storeEnter(i, r)
        ELSE /\ inv' = [inv EXCEPT ![i] = persistCall(r, NoOutcome)]
             /\ UNCHANGED <<aptos, masterAccount, moduleAddress>>
  /\ UNCHANGED <<contractVars, env, initialized, chainVars, dbVars, authVars>>

\* pinBase64 rejected
IpfsFail(i) ==
  /\ inv[i].pc = "ipfs"
  /\ inv' = [inv EXCEPT ![i] = [@ EXCEPT !.pc = "error", !.status = 500]]
  /\ UNCHANGED <<contractVars, serviceVars, chainVars, dbVars, authVars>>

\* variant of initialize: the account is loaded after getLedgerInfo settled
InitReturn_Reload(i) ==
  /\ inv[i].pc = "init"
  /\ initialized' = TRUE
  /\ masterAccount' \in LoadedAccounts(env)
  /\ inv' = [inv EXCEPT ![i] = storeAfterInit(inv[i])]
  /\ UNCHANGED <<contractVars, env, aptos, moduleAddress, chainVars, dbVars, authVars>>

\* getLedgerInfo resolved or rejected: initialize sets initialized and returns
InitReturn(i) ==
  /\ inv[i].pc = "init"
  /\ initialized' = TRUE
  /\ inv' = [inv EXCEPT ![i] = storeAfterInit(inv[i])]
  /\ UNCHANGED <<contractVars, env, aptos, masterAccount, moduleAddress, chainVars, dbVars, authVars>>

\* transaction.sign({signer: this.masterAccount, transaction})
sign(tx, signer) == [tx EXCEPT !.signer = signer]

\* variant of the build step: submit is called before sign
BuildReturn_SubmitFirst(i) ==
  /\ inv[i].pc = "build"
  /\ LET transaction == Transaction(inv[i].sender, accountSeq[inv[i].sender],
                                    inv[i].ipfsHash, i)
     IN inv' = [inv EXCEPT ![i] =
          [@ EXCEPT !.pc = "submit", !.tx = sign(transaction, masterAccount),
                    !.rpc = @ \o <<"submit", "sign">>]]
  /\ UNCHANGED <<contractVars, serviceVars, chainVars, dbVars, authVars>>

\* build.simple resolved with the sender's sequence number: sign, then submit
BuildReturn(i) ==
  /\ inv[i].pc = "build"
  /\ LET transaction == Transaction(inv[i].sender, accountSeq[inv[i].sender],
                                    inv[i].ipfsHash, i)
     IN inv' = [inv EXCEPT ![i] =
          [@ EXCEPT !.pc = "submit", !.tx = sign(transaction, masterAccount),
                    !.rpc = @ \o <<"sign", "submit">>]]
  /\ UNCHANGED <<contractVars, serviceVars, chainVars, dbVars, authVars>>

\* build.simple rejected
BuildFail(i) ==
  /\ inv[i].pc = "build"
  /\ inv' = [inv EXCEPT ![i] = storeFailed(@, "build: network error")]
  /\ UNCHANGED <<contractVars, serviceVars, chainVars, dbVars, authVars>>

\* why the node refuses a submitted transaction
SubmitRejections(tx) ==
  (IF tx.signer # tx.sender THEN {"INVALID_AUTH_KEY"} ELSE {})
  \cup (IF tx.seq < accountSeq[tx.sender] THEN {"SEQUENCE_NUMBER_TOO_OLD"} ELSE {})
  \cup (IF \E other \in mempool : other.sender = tx.sender /\ other.seq = tx.seq
        THEN {"sequence number already in mempool"} ELSE {})

\* submit.simple resolved with a pending transaction: waitForTransaction is awaited
SubmitReturn(i) ==
  /\ inv[i].pc = "submit"
  /\ SubmitRejections(inv[i].tx) = {}
  /\ mempool' = mempool \cup {inv[i].tx}
  /\ inv' = [inv EXCEPT ![i] = [@ EXCEPT !.pc = "wait", !.rpc = Append(@, "wait")]]
  /\ UNCHANGED <<contractVars, serviceVars, accountSeq, committed, dbVars, authVars>>

\* submit.simple rejected: by the node, or by the network
SubmitFail(i, reason) ==
  /\ inv[i].pc = "submit"
  /\ reason \in SubmitRejections(inv[i].tx) \cup {"submit: network error"}
  /\ inv' = [inv EXCEPT ![i] = storeFailed(@, reason)]
  /\ UNCHANGED <<contractVars, serviceVars, chainVars, dbVars, authVars>>

CommittedTxs == {committed[k].tx : k \in 1..Len(committed)}
VersionOf(tx) == CHOOSE k \in 1..Len(committed) : committed[k].tx = tx

\* waitForTransaction resolved: the transaction is committed and succeeded
WaitReturn(i) ==
  /\ inv[i].pc = "wait"
  /\ inv[i].tx \in CommittedTxs
  /\ committed[VersionOf(inv[i].tx)].success
  /\ inv' = [inv EXCEPT ![i] =
       storeEnded(@, RealReceipt(inv[i].tx, VersionOf(inv[i].tx)))]
  /\ UNCHANGED <<contractVars, serviceVars, chainVars, dbVars, authVars>>

\* variant of the wait: it rejects only for a transaction committed as failed
WaitFail_NoTimeout(i) ==
  /\ inv[i].pc = "wait"
  /\ inv[i].tx \in CommittedTxs
  /\ ~committed[VersionOf(inv[i].tx)].success
  /\ inv' = [inv EXCEPT ![i] = storeFailed(@, "transaction failed")]
  /\ UNCHANGED <<contractVars, serviceVars, chainVars, dbVars, authVars>>

\* waitForTransaction rejected: the transaction failed, or the wait timed out
\* (no timeoutSecs is passed: the client's default bound applies)
WaitFail(i) ==
  /\ inv[i].pc = "wait"
  /\ \/ /\ inv[i].tx \in CommittedTxs
        /\ ~committed[VersionOf(inv[i].tx)].success
        /\ inv' = [inv EXCEPT ![i] = storeFailed(@, "transaction failed")]
     \/ /\ inv[i].tx \notin CommittedTxs
        /\ inv' = [inv EXCEPT ![i] = storeFailed(@, "wait: timed out")]
  /\ UNCHANGED <<contractVars, serviceVars, chainVars, dbVars, authVars>>

\* Memory.create resolved: the document is stored, the user's counters are updated next
PersistReturn(i) ==
  /\ inv[i].pc = "persist"
  /\ docs' = Append(docs, MemoryDoc(i, inv[i]))
  /\ inv' = [inv EXCEPT ![i] = [@ EXCEPT !.pc = "stats"]]
  /\ UNCHANGED <<contractVars, serviceVars, chainVars, userStats, authVars>>

\* Memory.create rejected
PersistFail(i) ==
  /\ inv[i].pc = "persist"
  /\ inv' = [inv EXCEPT ![i] = [@ EXCEPT !.pc = "error", !.status = 500]]
  /\ UNCHANGED <<contractVars, serviceVars, chainVars, dbVars, authVars>>

\* User.findByIdAndUpdate resolved: $inc totalMemories and storageUsed, 201 is sent
StatsReturn(i) ==
  /\ inv[i].pc = "stats"
  /\ userStats' = [totalMemories |-> userStats.totalMemories + 1,
                   storageUsed |-> userStats.storageUsed + inv[i].fileSize]
  /\ inv' = [inv EXCEPT ![i] = [@ EXCEPT !.pc = "done", !.status = 201]]
  /\ UNCHANGED <<contractVars, serviceVars, chainVars, docs, authVars>>

\* User.findByIdAndUpdate rejected
StatsFail(i) ==
  /\ inv[i].pc = "stats"
  /\ inv' = [inv EXCEPT ![i] = [@ EXCEPT !.pc = "error", !.status = 500]]
  /\ UNCHANGED <<contractVars, serviceVars, chainVars, dbVars, authVars>>

\* ------------------------------------------------------------------ the chain
\* the chain commits a pending transaction: store_memory runs as the ledger's
\* create with the transaction's sender as caller
ChainCommit(tx) ==
  /\ tx \in mempool
  /\ tx.seq = accountSeq[tx.sender]
  /\ storeMemory(tx.sender, tx.ipfsHash)
  /\ mempool' = mempool \ {tx}
  /\ accountSeq' = [accountSeq EXCEPT ![tx.sender] = @ + 1]
  /\ committed' = Append(committed, [tx |-> tx, success |-> result'.status = "ok"])
  /\ UNCHANGED <<serviceVars, inv, dbVars, authVars>>

\* the chain commits a pending transaction as failed (out of gas, aborted)
ChainAbort(tx) ==
  /\ tx \in mempool
  /\ tx.seq = accountSeq[tx.sender]
  /\ mempool' = mempool \ {tx}
  /\ accountSeq' = [accountSeq EXCEPT ![tx.sender] = @ + 1]
  /\ committed' = Append(committed, [tx |-> tx, success |-> FALSE])
  /\ UNCHANGED <<contractVars, serviceVars, inv, dbVars, authVars>>

\* a pending transaction expires and is never committed
ChainDrop(tx) ==
  /\ tx \in mempool
  /\ mempool' = mempool \ {tx}
  /\ UNCHANGED <<contractVars, serviceVars, inv, accountSeq, committed, dbVars, authVars>>

AnchorNext ==
  \/ \E i \in Invocations, valid \in BOOLEAN, storeOnChain \in BOOLEAN,
        userAddress \in UserAddresses, fileSize \in FileSizes :
       Request(i, valid, storeOnChain, userAddress, fileSize)
  \/ \E i \in Invocations, ipfsHash \in PinnedHashes : IpfsReturn(i, ipfsHash)
  \/ \E i \in Invocations : IpfsFail(i)
  \/ \E i \in Invocations : InitReturn(i)
  \/ \E i \in Invocations : BuildReturn(i)
  \/ \E i \in Invocations : BuildFail(i)
  \/ \E i \in Invocations : SubmitReturn(i)
  \/ \E i \in Invocations, reason \in {"INVALID_AUTH_KEY", "SEQUENCE_NUMBER_TOO_OLD",
        "sequence number already in mempool", "submit: network error"} :
       SubmitFail(i, reason)
  \/ \E i \in Invocations : WaitReturn(i)
  \/ \E i \in Invocations : WaitFail(i)
  \/ \E i \in Invocations : PersistReturn(i)
  \/ \E i \in Invocations : PersistFail(i)
  \/ \E i \in Invocations : StatsReturn(i)
  \/ \E i \in Invocations : StatsFail(i)
  \/ \E tx \in mempool : ChainCommit(tx)
  \/ \E tx \in mempool : ChainAbort(tx)
  \/ \E tx \in mempool : ChainDrop(tx)

\* the service with any configuration of process.env
AnchorEnvInit == \E e \in Envs : LedgerInit /\ AnchorInit(e) /\ AuthInit

AnchorSpec == AnchorEnvInit /\ [][AnchorNext]_vars

\* a step of storeMemoryOnChain for invocation i: an awaited call settles
StoreStep(i) ==
  \/ InitReturn(i)
  \/ BuildReturn(i)
  \/ BuildFail(i)
  \/ SubmitReturn(i)
  \/ \E reason \in {"INVALID_AUTH_KEY", "SEQUENCE_NUMBER_TOO_OLD",
        "sequence number already in mempool", "submit: network error"} :
       SubmitFail(i, reason)
  \/ WaitReturn(i)
  \/ WaitFail(i)

\* every awaited call of storeMemoryOnChain settles: the event loop resumes the
\* invocation once its promise is resolved or rejected
AnchorFairness == \A i \in Invocations : WF_vars(StoreStep(i))

\* the service as configured by Init, with every awaited call settling
AnchorLiveSpec == Init /\ [][AnchorNext]_vars /\ AnchorFairness

\* createMemory for a user without a linked wallet: req.user.aptosAddress is undefined
RequestNoWallet(i, storeOnChain, fileSize) == Request(i, TRUE, storeOnChain, Null, fileSize)

OwnerNext ==
  \/ AnchorNext
  \/ \E i \in Invocations, storeOnChain \in BOOLEAN, fileSize \in FileSizes :
       RequestNoWallet(i, storeOnChain, fileSize)

\* the service as configured by Init, serving users with and without a wallet address
OwnerSpec == Init /\ [][OwnerNext]_vars

\* ================================================================== POST /api/auth/wallet
\* The route runs from one await to the next as one step.

Present(field) == field # NoString

\* const addressMatches = derivedAddress && derivedAddress.toLowerCase() === address.toLowerCase()
addressMatches(req) ==
  LET derivedAddress == deriveAddressFromPublicKey(req.publicKey)
  IN Present(derivedAddress) /\ toLowerCase(derivedAddress) = toLowerCase(req.address)

\* address && address.startsWith('0x') && address.length === 66
addressFormat(address) ==
  Present(address) /\ startsWith0x(address) /\ Len(address) = AddressLength

\* Method 1, Method 2, Method 3 of the route: isValid, the method that set it,
\* the methods evaluated, in order, and the texts the signature was verified
\* against, in order
verifyMethods(req) ==
  LET tried1 == Present(req.fullMessage)
      valid1 == tried1 /\ verifyPetraSignature(req.fullMessage, req.signature, req.publicKey).value
      tried2 == ~valid1 /\ Present(req.message) /\ Present(req.nonce)
      valid2 == tried2 /\ verifySignatureAlternative(req.message, req.signature,
                                                     req.publicKey, req.nonce)
      tried3 == ~valid1 /\ ~valid2
      valid3 == tried3 /\ validateSignatureStructure(req.signature, req.publicKey)
                       /\ addressFormat(req.address)
  IN [isValid |-> valid1 \/ valid2 \/ valid3,
      method |-> IF valid1 THEN "fullMessage" ELSE IF valid2 THEN "alternative"
                 ELSE IF valid3 THEN "structure" ELSE "none",
      trace |-> (IF tried1 THEN <<"fullMessage">> ELSE <<>>)
                \o (IF tried2 THEN <<"alternative">> ELSE <<>>)
                \o (IF tried3 THEN <<"structure">> ELSE <<>>),
      encodings |-> (IF tried1 THEN <<req.fullMessage>> ELSE <<>>)
                    \o (IF tried2
                        THEN formatsTried(req.message, req.signature, req.publicKey, req.nonce)
                        ELSE <<>>)]

\* variant of the route: an address that does not match the key is rejected
walletTrust_Strict(req) ==
  IF addressMatches(req)
  THEN [verifyMethods(req) EXCEPT !.trace = <<"address">> \o @]
  ELSE [isValid |-> FALSE, method |-> "none", trace |-> <<"address">>, encodings |-> <<>>]

\* variant of the route: the address is compared after the signature is verified
walletTrust_AddressLast(req) ==
  LET matches == addressMatches(req)
  IN [verifyMethods(req) EXCEPT !.trace = @ \o <<"address">>]

\* the route from the address check to if (!isValid): a mismatch is only logged
walletTrust(req) ==
  LET matches == addressMatches(req)
  IN [verifyMethods(req) EXCEPT !.trace = <<"address">> \o @]

\* User.findOne({aptosAddress: address}): the id of the user found, 0 for null
findOne(address) ==
  IF \E id \in 1..Len(users) : users[id].aptosAddress = address
  THEN CHOOSE id \in 1..Len(users) : users[id].aptosAddress = address
  ELSE 0

\* variant of new User: the address derived from the key is stored
newUser_Derived(req) ==
  [id |-> 0, aptosAddress |-> deriveAddressFromPublicKey(req.publicKey),
   aptosPublicKey |-> req.publicKey, lastLogin |-> 0]

\* new User({aptosAddress: address, aptosPublicKey: publicKey, ...})
newUser(req) ==
  [id |-> 0, aptosAddress |-> req.address, aptosPublicKey |-> req.publicKey, lastLogin |-> 0]

\* user.generateAuthToken(): jwt.sign({id: this._id}, ...)
generateAuthToken(user) == [id |-> user.id]

\* res.json({success: true, message: ..., data: {user: {...}, token}})
walletResponse(user, token) ==
  [status |-> 200, success |-> TRUE, message |-> "Wallet authentication successful",
   user |-> [id |-> user.id, aptosAddress |-> user.aptosAddress], token |-> token]

\* next(error)
errorResponse == [status |-> 500, success |-> FALSE, message |-> "error"]

\* the request arrives: the check of the fields, the address check, the
\* verification methods, 401 or the call of User.findOne
WalletArrive(a, req) ==
  /\ auth[a].pc = "new"
  /\ \A b \in 1..(a - 1) : auth[b].pc # "new"
  /\ auth' = [auth EXCEPT ![a] =
       IF ~Present(req.address) \/ ~Present(req.publicKey) \/ ~Present(req.signature)
       THEN [@ EXCEPT !.pc = "refused", !.req = req,
                      !.response = [status |-> 400, success |-> FALSE,
                         message |-> "Missing required wallet authentication data"]]
       ELSE LET trust == walletTrust(req)
            IN IF ~trust.isValid
               THEN [@ EXCEPT !.pc = "rejected", !.req = req, !.trace = trust.trace,
                              !.encodings = trust.encodings,
                              !.response = [status |-> 401, success |-> FALSE,
                                 message |-> "Invalid wallet signature"]]
               ELSE [@ EXCEPT !.pc = "findOne", !.req = req, !.isValid = TRUE,
                              !.method = trust.method, !.trace = trust.trace,
                              !.encodings = trust.encodings]]
  /\ UNCHANGED <<contractVars, anchorVars, users, probe>>

\* User.findOne resolved: a new user is saved first, a known one gets the
\* public key of the request; then lastLogin is set and user.save() called
FindOneReturn(a) ==
  /\ auth[a].pc = "findOne"
  /\ LET found == findOne(auth[a].req.address)
     IN auth' = [auth EXCEPT ![a] =
          IF found = 0
          THEN [@ EXCEPT !.pc = "create", !.user = newUser(auth[a].req)]
          ELSE [@ EXCEPT !.pc = "save",
                         !.user = [users[found] EXCEPT
                                     !.aptosPublicKey = auth[a].req.publicKey,
                                     !.lastLogin = a]]]
  /\ UNCHANGED <<contractVars, anchorVars, users, probe>>

\* the first user.save() resolved: the document is inserted (aptosAddress is unique)
CreateReturn(a) ==
  /\ auth[a].pc = "create"
  /\ findOne(auth[a].user.aptosAddress) = 0
  /\ users' = Append(users, [auth[a].user EXCEPT !.id = Len(users) + 1])
  /\ auth' = [auth EXCEPT ![a] =
       [@ EXCEPT !.pc = "save",
                 !.user = [@ EXCEPT !.id = Len(users) + 1, !.lastLogin = a]]]
  /\ UNCHANGED <<contractVars, anchorVars, probe>>

\* user.save() resolved: the modified fields are written, the token is signed
\* and aptosService.getBalance called
SaveReturn(a) ==
  /\ auth[a].pc = "save"
  /\ users' = [users EXCEPT ![auth[a].user.id] =
       [@ EXCEPT !.aptosPublicKey = auth[a].user.aptosPublicKey,
                 !.lastLogin = auth[a].user.lastLogin]]
  /\ auth' = [auth EXCEPT ![a] = [@ EXCEPT !.pc = "balance"]]
  /\ UNCHANGED <<contractVars, anchorVars, probe>>

\* User.findOne or user.save() rejected (validation, duplicate key, connection)
DatabaseFail(a) ==
  /\ auth[a].pc \in {"findOne", "create", "save"}
  /\ auth' = [auth EXCEPT ![a] = [@ EXCEPT !.pc = "error", !.response = errorResponse]]
  /\ UNCHANGED <<contractVars, anchorVars, users, probe>>

\* getBalance resolved, or rejected and caught: the answer is sent with the token
BalanceReturn(a) ==
  /\ auth[a].pc = "balance"
  /\ auth' = [auth EXCEPT ![a] =
       [@ EXCEPT !.pc = "done",
                 !.response = walletResponse(auth[a].user, generateAuthToken(auth[a].user))]]
  /\ UNCHANGED <<contractVars, anchorVars, users, probe>>

AuthNext ==
  \/ \E a \in Attempts, req \in WalletRequests : WalletArrive(a, req)
  \/ \E a \in Attempts : FindOneReturn(a)
  \/ \E a \in Attempts : CreateReturn(a)
  \/ \E a \in Attempts : SaveReturn(a)
  \/ \E a \in Attempts : DatabaseFail(a)
  \/ \E a \in Attempts : BalanceReturn(a)

AuthSpec == Init /\ [][AuthNext]_vars

\* ================================================================== POST /api/auth/link-wallet
\* The route of a logged-in user (req.user, loaded by protect); it shares the
\* User collection with POST /api/auth/wallet.
MaxUsers == 2
Linkers == 1..MaxUsers

\* a user registered with email and password: generateAptosWallet gave it an
\* address of its own
GeneratedAddress(id) == <<"0", "x", "generated">> \o [k \in 1..id |-> "1"]
RegisteredUser(id) ==
  [id |-> id, aptosAddress |-> GeneratedAddress(id), aptosPublicKey |-> NoString,
   lastLogin |-> 0]

\* the address of key 1 written in upper-case digits
UpperAddress1 == <<"0", "x">> \o toUpperCase(SubSeq(Address1, 3, Len(Address1)))

\* the bodies explored: the wallet's request, a well-formed signature of
\* another key for the same address and for its upper-case spelling, a
\* signature that is too short, a missing signature
LinkRequests ==
  {GoodRequest,
   Body(Address1, PublicKey1, OtherSignature, NoString, NoString, NoString),
   Body(UpperAddress1, PublicKey1, OtherSignature, NoString, NoString, NoString),
   Body(Address1, PublicKey1, ShortSignature, Login, Nonce1, NoString),
   Body(Address1, PublicKey1, NoString, Login, Nonce1, NoString)}

\* the wallet logins explored next to the link requests
LinkWalletRequests == {GoodRequest}

\* User.findOne({aptosAddress: address, _id: {$ne: req.user._id}}): the id of
\* the user found, 0 for null
findOneOther(address, id) ==
  IF \E other \in 1..Len(users) : other # id /\ users[other].aptosAddress = address
  THEN CHOOSE other \in 1..Len(users) : other # id /\ users[other].aptosAddress = address
  ELSE 0

\* res.json({success: true, message: 'Wallet linked successfully', data: {aptosAddress, ...}})
linkResponse(address) ==
  [status |-> 200, success |-> TRUE, message |-> "Wallet linked successfully",
   aptosAddress |-> address]

\* the request arrives: the check of the fields, the verification methods, 401
\* or the call of User.findOne
LinkArrive(a, id, req) ==
  /\ auth[a].pc = "new"
  /\ \A b \in 1..(a - 1) : auth[b].pc # "new"
  /\ id \in 1..Len(users)
  /\ auth' = [auth EXCEPT ![a] =
       IF ~Present(req.address) \/ ~Present(req.publicKey) \/ ~Present(req.signature)
       THEN [@ EXCEPT !.pc = "refused", !.req = req, !.linker = id,
                      !.response = [status |-> 400, success |-> FALSE,
                         message |-> "Missing required wallet data"]]
       ELSE LET trust == verifyMethods(req)
            IN IF ~trust.isValid
               THEN [@ EXCEPT !.pc = "rejected", !.req = req, !.linker = id,
                              !.trace = trust.trace, !.encodings = trust.encodings,
                              !.response = [status |-> 401, success |-> FALSE,
                                 message |-> "Invalid wallet signature"]]
               ELSE [@ EXCEPT !.pc = "linkFindOne", !.req = req, !.linker = id,
                              !.isValid = TRUE, !.method = trust.method,
                              !.trace = trust.trace, !.encodings = trust.encodings]]
  /\ UNCHANGED <<contractVars, anchorVars, users, probe>>

\* User.findOne resolved: 400 when another user has the address, else
\* req.user.aptosAddress and aptosPublicKey are set and req.user.save() called
LinkFindOneReturn(a) ==
  /\ auth[a].pc = "linkFindOne"
  /\ auth' = [auth EXCEPT ![a] =
       IF findOneOther(auth[a].req.address, auth[a].linker) # 0
       THEN [@ EXCEPT !.pc = "linked",
                      !.response = [status |-> 400, success |-> FALSE,
                         message |-> "This wallet is already linked to another account"]]
       ELSE [@ EXCEPT !.pc = "linkSave",
                      !.user = [users[auth[a].linker] EXCEPT
                                  !.aptosAddress = auth[a].req.address,
                                  !.aptosPublicKey = auth[a].req.publicKey]]]
  /\ UNCHANGED <<contractVars, anchorVars, users, probe>>

\* variant of the save: the collection has no unique index on aptosAddress
LinkSaveReturn_NoIndex(a) ==
  /\ auth[a].pc = "linkSave"
  /\ users' = [users EXCEPT ![auth[a].linker] =
       [@ EXCEPT !.aptosAddress = auth[a].user.aptosAddress,
                 !.aptosPublicKey = auth[a].user.aptosPublicKey]]
  /\ auth' = [auth EXCEPT ![a] = [@ EXCEPT !.pc = "linkBalance"]]
  /\ UNCHANGED <<contractVars, anchorVars, probe>>

\* req.user.save() resolved: the modified fields are written (aptosAddress is
\* unique), aptosService.getBalance is called
LinkSaveReturn(a) ==
  /\ auth[a].pc = "linkSave"
  /\ findOneOther(auth[a].user.aptosAddress, auth[a].linker) = 0
  /\ users' = [users EXCEPT ![auth[a].linker] =
       [@ EXCEPT !.aptosAddress = auth[a].user.aptosAddress,
                 !.aptosPublicKey = auth[a].user.aptosPublicKey]]
  /\ auth' = [auth EXCEPT ![a] = [@ EXCEPT !.pc = "linkBalance"]]
  /\ UNCHANGED <<contractVars, anchorVars, probe>>

\* req.user.save() rejected by the unique index: another user has the address
LinkDuplicateKey(a) ==
  /\ auth[a].pc = "linkSave"
  /\ findOneOther(auth[a].user.aptosAddress, auth[a].linker) # 0
  /\ auth' = [auth EXCEPT ![a] =
       [@ EXCEPT !.pc = "error",
                 !.response = [errorResponse EXCEPT !.message = "E11000 duplicate key"]]]
  /\ UNCHANGED <<contractVars, anchorVars, users, probe>>

\* User.findOne or req.user.save() rejected (connection)
LinkDatabaseFail(a) ==
  /\ auth[a].pc \in {"linkFindOne", "linkSave"}
  /\ auth' = [auth EXCEPT ![a] = [@ EXCEPT !.pc = "error", !.response = errorResponse]]
  /\ UNCHANGED <<contractVars, anchorVars, users, probe>>

\* getBalance resolved, or rejected and caught: the answer is sent
LinkBalanceReturn(a) ==
  /\ auth[a].pc = "linkBalance"
  /\ auth' = [auth EXCEPT ![a] =
       [@ EXCEPT !.pc = "done", !.response = linkResponse(auth[a].req.address)]]
  /\ UNCHANGED <<contractVars, anchorVars, users, probe>>

\* registered users, and both routes idle
LinkInit ==
  /\ LedgerInit
  /\ AnchorInit(DefaultEnv)
  /\ auth = [a \in Attempts |-> NewAttempt]
  /\ users = [id \in Linkers |-> RegisteredUser(id)]
  /\ probe = NoProbe

LinkNext ==
  \/ \E a \in Attempts, req \in LinkWalletRequests : WalletArrive(a, req)
  \/ \E a \in Attempts : FindOneReturn(a)
  \/ \E a \in Attempts : CreateReturn(a)
  \/ \E a \in Attempts : SaveReturn(a)
  \/ \E a \in Attempts : DatabaseFail(a)
  \/ \E a \in Attempts : BalanceReturn(a)
  \/ \E a \in Attempts, id \in Linkers, req \in LinkRequests : LinkArrive(a, id, req)
  \/ \E a \in Attempts : LinkFindOneReturn(a)
  \/ \E a \in Attempts : LinkSaveReturn(a)
  \/ \E a \in Attempts : LinkDuplicateKey(a)
  \/ \E a \in Attempts : LinkDatabaseFail(a)
  \/ \E a \in Attempts : LinkBalanceReturn(a)

LinkSpec == LinkInit /\ [][LinkNext]_vars

\* ================================================================== the verifier functions
\* Each function of the signature verifier called on its own, on arguments
\* drawn from the sets below.

\* hex strings: well-formed, prefixed, upper case, of odd length, with characters
\* that are no hex digits
HexStrings ==
  {<<>>, <<"a">>, <<"a", "b">>, <<"A", "b", "0", "1">>, <<"0", "x", "f", "f">>,
   <<"a", "b", "c">>, <<"z", "z">>, <<"1", "z">>, <<"-", "1">>, <<"f", "f", "z", "0">>,
   <<"0", "x">>, PublicKey1}

\* how a signature was made: the key, the challenge and the encoding signed
Formats == {"raw", "petra", "chain1", "chain2", "chain3"}
Signing(key, message, nonce, format) ==
  [key |-> key, message |-> message, nonce |-> nonce, format |-> format]
Signings ==
  {Signing(KeyBytes1, Login, nonce, format) : nonce \in {Nonce1, Nonce2}, format \in Formats}
  \cup {Signing(KeyBytes2, Login, Nonce1, "petra")}
WalletSigning == Signing(KeyBytes1, Login, Nonce1, "petra")

\* the text a wallet signs for a challenge in a format
SignedText(signing) ==
  CASE signing.format = "raw" -> signing.message
    [] signing.format = "petra" -> PetraFormat(signing.message, signing.nonce)
    [] signing.format = "chain1" -> PetraFormat(signing.message, signing.nonce) \o <<"\nchainId: 1">>
    [] signing.format = "chain2" -> PetraFormat(signing.message, signing.nonce) \o <<"\nchainId: 2">>
    [] signing.format = "chain3" -> PetraFormat(signing.message, signing.nonce) \o <<"\nchainId: 3">>

\* what is done to the hex signature before it is passed
Tamperings == {"none", "upper", "prefix", "flip", "cut"}
Tamper(signature, tampering) ==
  CASE tampering = "none" -> signature
    [] tampering = "upper" -> toUpperCase(signature)
    [] tampering = "prefix" -> <<"0", "x">> \o signature
    [] tampering = "flip" -> [signature EXCEPT ![1] = IF @ = "0" THEN "1" ELSE "0"]
    [] tampering = "cut" -> SubSeq(signature, 1, Len(signature) - 2)

PresentedSignature(signing, tampering) ==
  Tamper(SignatureOf(signing.key, SignedText(signing)), tampering)

\* the signatures passed: every signing as made, and the wallet's signing changed
Presented ==
  {<<signing, "none">> : signing \in Signings}
  \cup {<<WalletSigning, tampering>> : tampering \in Tamperings}

ProbeMessages == {Login, PetraFormat(Login, Nonce1)}
ProbeNonces == {Nonce1, Nonce2}
DeriveKeys ==
  {PublicKey1, <<"0", "x">> \o PublicKey1, toUpperCase(PublicKey1), PublicKey2,
   <<"a", "b", "c">>, <<"z", "z">>}

\* the call is made: probe holds it, and the latest deriveAddressFromPublicKey
\* call made before it
Probed(fn, args, made, out) ==
  [fn |-> fn, args |-> args, made |-> made, out |-> out,
   derived |-> IF probe.fn = "deriveAddressFromPublicKey"
               THEN <<probe.args[1], probe.out.value>> ELSE probe.derived]

\* hexToUint8Array as its callers call it: on the string without its '0x'
CallHexToUint8Array(hexString) ==
  /\ probe' = Probed("hexToUint8Array", <<hexString>>, <<>>,
                     hexToUint8Array(stripPrefix(hexString)))
  /\ UNCHANGED <<contractVars, anchorVars, auth, users>>

CallVerifyPetraSignature(fullMessage, publicKey, signing, tampering) ==
  /\ LET signature == PresentedSignature(signing, tampering)
     IN probe' = Probed("verifyPetraSignature", <<fullMessage, signature, publicKey>>,
                        <<signing, tampering>>,
                        verifyPetraSignature(fullMessage, signature, publicKey))
  /\ UNCHANGED <<contractVars, anchorVars, auth, users>>

CallVerifySignatureAlternative(message, nonce, publicKey, signing, tampering) ==
  /\ LET signature == PresentedSignature(signing, tampering)
     IN probe' = Probed("verifySignatureAlternative",
                        <<message, signature, publicKey, nonce>>, <<signing, tampering>>,
                        Return(verifySignatureAlternative(message, signature, publicKey, nonce)))
  /\ UNCHANGED <<contractVars, anchorVars, auth, users>>

CallValidateSignatureStructure(signature, publicKey) ==
  /\ probe' = Probed("validateSignatureStructure", <<signature, publicKey>>, <<>>,
                     Return(validateSignatureStructure(signature, publicKey)))
  /\ UNCHANGED <<contractVars, anchorVars, auth, users>>

CallDeriveAddressFromPublicKey(publicKey) ==
  /\ probe' = Probed("deriveAddressFromPublicKey", <<publicKey>>, <<>>,
                     Return(deriveAddressFromPublicKey(publicKey)))
  /\ UNCHANGED <<contractVars, anchorVars, auth, users>>

VerifierNext ==
  \/ \E hexString \in HexStrings : CallHexToUint8Array(hexString)
  \/ \E publicKey \in {PublicKey1, <<"a", "b", "c">>}, presented \in Presented :
       CallVerifyPetraSignature(PetraFormat(Login, Nonce1), publicKey,
                                presented[1], presented[2])
  \/ \E message \in ProbeMessages, nonce \in ProbeNonces, presented \in Presented :
       CallVerifySignatureAlternative(message, nonce, PublicKey1,
                                      presented[1], presented[2])
  \/ \E signature \in {PetraSignature, ShortSignature, <<"a", "b", "c">>},
        publicKey \in {PublicKey1, <<"a", "b">>, <<"a", "b", "c">>} :
       CallValidateSignatureStructure(signature, publicKey)
  \/ \E publicKey \in DeriveKeys : CallDeriveAddressFromPublicKey(publicKey)

VerifierSpec == Init /\ [][VerifierNext]_vars

\* ================================================================== properties
\* The error taxonomy of the design, as the revert reasons of the contract.
NotFound == "Memory does not exist"
NotAuthorized == "Not the owner"
InvalidInput == {"IPFS hash cannot be empty", "Invalid address", "Cannot transfer to self"}

ExistingIds == {id \in MemoryIds : memories[id].exists}
StoredEvents == SelectSeq(events, LAMBDA e : e.type = "MemoryStored")
TransferIndices == {i \in 1..Len(events) : events[i].type = "MemoryTransferred"}
\* the step executes a transaction (the only other step builds a new block)
TxStep == blockTimestamp' = blockTimestamp
StoreSucceeded == call.op = "storeMemory" /\ result.status = "ok"
TransferSucceeded == call.op = "transferMemory" /\ result.status = "ok"

\* C1: in every reachable state, for every id and every address addr, id is in
\* the owner-index bucket of addr if and only if record id exists and its owner
\* field equals addr.
C1_OwnerIndexIff ==
  \A id \in MemoryIds, addr \in AllAddresses :
    (id \in Range(getUserMemories(addr))) <=>
      (memories[id].exists /\ memories[id].owner = addr)

\* C1 witness: two records were created and one of them was transferred.
C1_Witness ==
  /\ memoryCounter >= 2
  /\ TransferIndices # {}

\* C2: ids are dense, strictly increasing and never reused: the k-th successful
\* create returns id k, the ids of the created records are exactly 1..count(),
\* count() is the number of successful creates so far, and a failed create or a
\* transfer never changes count() (the reads are views and write nothing).
C2_DenseIdsState ==
  /\ ExistingIds = 1..getTotalMemories
  /\ Len(StoredEvents) = getTotalMemories
  /\ \A k \in 1..Len(StoredEvents) : StoredEvents[k].memoryId = k
  /\ StoreSucceeded => result.value = Len(StoredEvents)

C2_DenseIds ==
  /\ []C2_DenseIdsState
  /\ [][(~StoreSucceeded') => getTotalMemories' = getTotalMemories]_vars

\* C2 witness: the second successful create returned id 2 after a transfer and
\* the state holds two records.
C2_Witness ==
  /\ StoreSucceeded
  /\ result.value = 2
  /\ TransferIndices # {}

\* C3: no state has the same id in the buckets of two different owners, and no
\* state has an existing id absent from the bucket of its current owner, also
\* after repeated transfers of the same id back and forth.
C3_NoDoubleNoMissing ==
  /\ \A id \in MemoryIds, a \in AllAddresses, b \in AllAddresses :
       (a # b) => ~(id \in Range(userMemories[a]) /\ id \in Range(userMemories[b]))
  /\ \A id \in ExistingIds : id \in Range(userMemories[memories[id].owner])

\* C3 witness: an id was transferred from a to b and later back from b to a.
C3_Witness ==
  \E i \in TransferIndices, j \in TransferIndices :
    /\ i < j
    /\ events[i].memoryId = events[j].memoryId
    /\ events[i].from = events[j].to
    /\ events[i].to = events[j].from

\* C4: after transfer(id, B) called by the owner A succeeds, get(id).owner = B,
\* id is not in listByOwner(A) and id is in listByOwner(B).
C4_TransferPost ==
  TransferSucceeded =>
    /\ getMemory(call.memoryId).status = "ok"
    /\ getMemory(call.memoryId).value[2] = call.newOwner
    /\ call.memoryId \notin Range(getUserMemories(call.sender))
    /\ call.memoryId \in Range(getUserMemories(call.newOwner))

\* C4 witness: a transfer succeeded while the old owner still holds another record.
C4_Witness ==
  /\ TransferSucceeded
  /\ getUserMemories(call.sender) # <<>>

\* C5: transfer(id, newOwner) called by an address that is not the current
\* owner of an existing record fails with NotAuthorized and leaves the counter,
\* every record, every owner bucket and the event log unchanged.
C5_NonOwnerTransfer ==
  [][\A sender \in Callers, memoryId \in MemoryIds, newOwner \in AllAddresses :
       ( /\ TxStep
         /\ call' = TransferCall(sender, memoryId, newOwner)
         /\ memories[memoryId].exists
         /\ memories[memoryId].owner # sender )
       => (result'.status = NotAuthorized /\ UNCHANGED ledgerVars)]_vars

\* C5 witness: a transfer by a non-owner of an existing record was refused.
C5_Witness ==
  /\ call.op = "transferMemory"
  /\ result.status = NotAuthorized
  /\ memories[call.memoryId].exists
  /\ memories[call.memoryId].owner # call.sender

\* C6: transfer(id, newOwner) fails with NotFound when no record id exists
\* (id 0 or id greater than count(), whatever the caller), and fails with
\* InvalidInput when the current owner passes the null address or their own
\* address as newOwner; in each case the counter, the records, the owner
\* buckets and the event log are unchanged.
C6_TransferRejections ==
  [][\A sender \in Callers, memoryId \in MemoryIds, newOwner \in AllAddresses :
       (TxStep /\ call' = TransferCall(sender, memoryId, newOwner)) =>
         /\ (memoryId = 0 \/ memoryId > getTotalMemories)
              => (result'.status = NotFound /\ UNCHANGED ledgerVars)
         /\ ( /\ memories[memoryId].exists
              /\ memories[memoryId].owner = sender
              /\ newOwner \in {ZeroAddress, sender} )
              => (result'.status \in InvalidInput /\ UNCHANGED ledgerVars)]_vars

\* C6 witness: the owner of an existing record tried to transfer it to
\* themselves and was refused.
C6_Witness ==
  /\ call.op = "transferMemory"
  /\ memories[call.memoryId].exists
  /\ memories[call.memoryId].owner = call.sender
  /\ call.newOwner = call.sender
  /\ result.status \in InvalidInput

\* C6, the other two cases: a transfer of an id that was never created, and a
\* transfer by the owner to the null address, were refused.
C6_WitnessNotFound ==
  /\ call.op = "transferMemory"
  /\ call.memoryId > getTotalMemories
  /\ getTotalMemories >= 1
  /\ result.status = NotFound

C6_WitnessNullAddress ==
  /\ call.op = "transferMemory"
  /\ memories[call.memoryId].owner = call.sender
  /\ call.newOwner = ZeroAddress
  /\ result.status \in InvalidInput

\* C7: a create with a non-empty contentHash that returns id is followed, in
\* the same state and in every later state reached by other creates only, by
\* get(id) succeeding (exists = true) with the same contentHash and with owner
\* equal to the caller of the create.
C7_CreateThenGet ==
  /\ StoreSucceeded =>
       /\ Len(events) >= 1
       /\ events[Len(events)] =
            MemoryStored(result.value, call.sender, call.ipfsHash,
                         events[Len(events)].timestamp)
       /\ call.ipfsHash # ""
  /\ TransferIndices = {} =>
       \A i \in 1..Len(events) :
         /\ getMemory(events[i].memoryId).status = "ok"
         /\ getMemory(events[i].memoryId).value[1] = events[i].ipfsHash
         /\ getMemory(events[i].memoryId).value[2] = events[i].owner
         /\ memories[events[i].memoryId].exists

\* C7 witness: two creates by different callers with different hashes, and
\* nothing else, have run.
C7_Witness ==
  /\ StoreSucceeded
  /\ Len(events) = 2
  /\ TransferIndices = {}
  /\ events[1].owner # events[2].owner
  /\ events[1].ipfsHash # events[2].ipfsHash

\* C8: a create with an empty contentHash fails with InvalidInput and has no
\* effect (counter, records, buckets and event log unchanged), so the next
\* successful create returns the previous count plus one.
C8_EmptyHashCreate ==
  [][/\ (TxStep /\ call'.op = "storeMemory" /\ call'.ipfsHash = "") =>
          (result'.status \in InvalidInput /\ UNCHANGED ledgerVars)
     /\ (TxStep /\ StoreSucceeded') =>
          (result'.value = getTotalMemories + 1 /\ call'.ipfsHash # "")]_vars

\* C8 witness: a create with an empty hash was refused on a ledger that already
\* holds a record.
C8_Witness ==
  /\ call.op = "storeMemory"
  /\ call.ipfsHash = ""
  /\ result.status \in InvalidInput
  /\ getTotalMemories >= 1

\* C9: creates are never assigned the same id, whatever the order in which the
\* chain commits concurrently submitted creates; two creates on an empty ledger
\* get the ids 1 and 2.
C9_DistinctIds ==
  /\ \A i \in 1..Len(StoredEvents), j \in 1..Len(StoredEvents) :
       (i # j) => StoredEvents[i].memoryId # StoredEvents[j].memoryId
  /\ (Len(events) >= 2 /\ events[1].type = "MemoryStored" /\ events[2].type = "MemoryStored")
       => {events[1].memoryId, events[2].memoryId} = {1, 2}

\* C9 witness: two creates by different callers were committed in the same
\* block on an empty ledger.
C9_Witness ==
  /\ Len(events) >= 2
  /\ events[1].type = "MemoryStored"
  /\ events[2].type = "MemoryStored"
  /\ events[1].owner # events[2].owner
  /\ events[1].timestamp = events[2].timestamp

\* the last transfer of id in the event log, as a set of at most one index
LastTransferOf(id) ==
  {i \in TransferIndices :
     /\ events[i].memoryId = id
     /\ \A j \in TransferIndices : events[j].memoryId = id => j <= i}

\* C10: the three writes of a transfer are atomic as a unit: in every state a
\* read (get, listByOwner, verifyOwnership, count) can observe, a record whose
\* last transfer went from `from` to `to` is out of the bucket of `from`, has
\* owner `to`, and is in the bucket of `to`, all three together.
C10_TransferAtomic ==
  \A id \in MemoryIds : \A i \in LastTransferOf(id) :
    /\ id \notin Range(getUserMemories(events[i].from))
    /\ getMemory(id) = Ok(<<memories[id].ipfsHash, events[i].to, memories[id].timestamp>>)
    /\ verifyOwnership(id, events[i].to)
    /\ ~verifyOwnership(id, events[i].from)
    /\ id \in Range(getUserMemories(events[i].to))
    /\ getUserMemoryCount(events[i].to) >= 1
    /\ getTotalMemories >= id

\* C10 witness: a transfer was followed by a create, and both were committed.
C10_Witness ==
  \E i \in TransferIndices :
    /\ i < Len(events)
    /\ events[i + 1].type = "MemoryStored"

\* C11: verifyOwnership(id, address) is true if and only if record id exists
\* and its owner equals address, and it never fails: for id 0, for ids greater
\* than count() and for the null address it returns false.
C11_VerifyOwnership ==
  \A id \in MemoryIds, a \in AllAddresses :
    /\ verifyOwnership(id, a) \in BOOLEAN
    /\ verifyOwnership(id, a) <=>
         (id \in 1..getTotalMemories /\ getMemory(id).status = "ok"
          /\ getMemory(id).value[2] = a)
    /\ (id = 0 \/ id > getTotalMemories \/ a = ZeroAddress) => ~verifyOwnership(id, a)

\* C11 witness: a transferred record is verified for its new owner and refused
\* for its creator, while an id above count() is in range of the arguments.
C11_Witness ==
  \E i \in TransferIndices :
    /\ verifyOwnership(events[i].memoryId, events[i].to)
    /\ ~verifyOwnership(events[i].memoryId, events[i].from)
    /\ ~verifyOwnership(getTotalMemories + 1, events[i].to)

\* C12: get(id) fails with NotFound exactly when the exists flag of record id
\* is false, which is for id 0 and every id greater than count(); it succeeds
\* for every id in 1..count(), and a get that succeeded succeeds in every later
\* state.
C12_GetState ==
  \A id \in MemoryIds :
    /\ getMemory(id).status \in {"ok", NotFound}
    /\ (getMemory(id).status = NotFound) <=> ~memories[id].exists
    /\ (getMemory(id).status = NotFound) <=> (id = 0 \/ id > getTotalMemories)
    /\ (getMemory(id).status = "ok") <=> (id \in 1..getTotalMemories)

C12_GetNotFound ==
  /\ []C12_GetState
  /\ [][\A id \in MemoryIds :
          (getMemory(id).status = "ok") => (getMemory(id).status = "ok")']_vars

\* C12 witness: get(1) succeeds and get(2) fails with NotFound after a transfer.
C12_Witness ==
  /\ getMemory(1).status = "ok"
  /\ getMemory(2).status = NotFound
  /\ TransferIndices # {}

\* C13: every successful create appends exactly one MemoryStored(id, owner,
\* contentHash, timestamp) event, every successful transfer appends exactly one
\* MemoryTransferred(id, from, to) event whose from is the owner before and
\* whose to is the owner after the transfer, a failed call appends nothing, and
\* events are appended at the end of the log, in commit order.
C13_EventStream ==
  [][TxStep =>
       /\ StoreSucceeded' =>
            events' = Append(events,
              [type |-> "MemoryStored", memoryId |-> result'.value,
               owner |-> call'.sender, ipfsHash |-> call'.ipfsHash,
               timestamp |-> blockTimestamp])
       /\ TransferSucceeded' =>
            /\ events' = Append(events,
                 [type |-> "MemoryTransferred", memoryId |-> call'.memoryId,
                  from |-> memories[call'.memoryId].owner,
                  to |-> memories'[call'.memoryId].owner])
            /\ memories'[call'.memoryId].owner = call'.newOwner
            /\ memories[call'.memoryId].owner = call'.sender
       /\ (result'.status # "ok") => events' = events]_vars

\* C13 witness: the log holds a create and a transfer, and the last call failed.
C13_Witness ==
  /\ result.status # "ok"
  /\ TransferIndices # {}
  /\ Len(events) >= 2

\* C14: the contentHash and the timestamp of a record are those written by the
\* create that returned its id, whatever creates and transfers follow, and a
\* transfer of id changes no field of any other record.
C14_WrittenOnce ==
  \A k \in 1..Len(StoredEvents) :
    /\ memories[StoredEvents[k].memoryId].ipfsHash = StoredEvents[k].ipfsHash
    /\ memories[StoredEvents[k].memoryId].timestamp = StoredEvents[k].timestamp
    /\ memories[StoredEvents[k].memoryId].exists

C14_RecordImmutable ==
  /\ []C14_WrittenOnce
  /\ [][/\ \A id \in MemoryIds : memories[id].exists =>
             /\ memories'[id].ipfsHash = memories[id].ipfsHash
             /\ memories'[id].timestamp = memories[id].timestamp
             /\ memories'[id].exists
        /\ (TxStep /\ TransferSucceeded') =>
             \A id \in MemoryIds \ {call'.memoryId} : memories'[id] = memories[id]]_vars

\* C14 witness: a record created in the first block was transferred in a later
\* block, next to a second record.
C14_Witness ==
  /\ TransferSucceeded
  /\ blockTimestamp > memories[call.memoryId].timestamp
  /\ getTotalMemories >= 2

\* ------------------------------------------------------------------ anchoring claims
IsMock(outcome) == outcome.kind = "receipt" /\ outcome.mock
IsConfirmed(outcome) == outcome.kind = "receipt" /\ ~outcome.mock /\ outcome.success
IsFailed(outcome) == outcome.kind = "error"
Count(seq, x) == Cardinality({k \in 1..Len(seq) : seq[k] = x})
Submitted(i) == Count(inv[i].rpc, "submit") > 0
CommittedFor(i) ==
  {k \in 1..Len(committed) : committed[k].tx.inv = i /\ committed[k].success}

\* C15: when the module address is unset, store returns a receipt with mock and
\* success set, and the invocation made no call to the ledger: no getLedgerInfo,
\* build, sign, submit or wait, also when the service was not initialized.
C15_MockWithoutTransport ==
  \A i \in Invocations :
    IsMock(inv[i].outcome) => inv[i].outcome.success /\ inv[i].rpc = <<>>

\* C16: a document persisted from a mock receipt is not marked on-chain and has
\* no txHash that verifyMemory looks up on the ledger, and a document is marked
\* on-chain only after its transaction was submitted and committed.
C16_MockNotOnChain ==
  \A k \in 1..Len(docs) :
    /\ IsMock(inv[docs[k].inv].outcome) =>
         ~docs[k].isOnChain /\ verifyMemory(docs[k]) = "not on chain"
    /\ docs[k].isOnChain =>
         IsConfirmed(inv[docs[k].inv].outcome) /\ CommittedFor(docs[k].inv) # {}

\* C17: for a request that is not mock, a confirmed receipt means a record with
\* its contentHash was created on the ledger by its transaction, and a thrown
\* failure means no record was created for it, also after a wait that failed
\* or timed out once the transaction was submitted.
C17_ReceiptIffRecord ==
  \A i \in Invocations :
    /\ IsConfirmed(inv[i].outcome) =>
         /\ CommittedFor(i) # {}
         /\ \E id \in ExistingIds : memories[id].ipfsHash = inv[i].ipfsHash
    /\ IsFailed(inv[i].outcome) => CommittedFor(i) = {}

\* C18: one store invocation builds, signs and submits at most one transaction,
\* whatever stage fails, and makes no call to the ledger once it has failed.
C18_AtMostOnce ==
  \A i \in Invocations :
    /\ Count(inv[i].rpc, "build") <= 1
    /\ Count(inv[i].rpc, "sign") <= 1
    /\ Count(inv[i].rpc, "submit") <= 1

C18_NoRetry ==
  /\ []C18_AtMostOnce
  /\ [][\A i \in Invocations :
          (IsFailed(inv[i].outcome) \/ inv'[i].pc = "error") =>
            /\ inv'[i].rpc = inv[i].rpc
            /\ inv'[i].pc = "error"]_vars

\* C18 witness: an invocation failed after it had submitted its transaction.
C18_Witness ==
  \E i \in Invocations :
    /\ IsFailed(inv[i].outcome)
    /\ Submitted(i)
    /\ Count(inv[i].rpc, "wait") = 1

\* the reasons a stage of store can fail with
StageReasons(r) ==
  CASE r.pc = "build" -> {"build: network error"}
    [] r.pc = "submit" -> SubmitRejections(r.tx) \cup {"submit: network error"}
    [] r.pc = "wait" -> {"transaction failed", "wait: timed out"}
    [] OTHER -> {}

\* the stage of store went through: the next call is awaited, or the receipt returned
StageDone(r, next) ==
  \/ r.pc = "build" /\ next.pc = "submit"
  \/ r.pc = "submit" /\ next.pc = "wait"
  \/ r.pc = "wait" /\ IsConfirmed(next.outcome) /\ CommittedFor(r.tx.inv) # {}

\* C19: when build, submit or the wait of a request that is not mock fails, store
\* throws the error "Aptos transaction failed: <reason>" with the reason of the
\* failed call, and no receipt, real or mock, is ever returned for the request.
C19_FailureThrows ==
  [][\A i \in Invocations :
       /\ (inv[i].pc \in {"build", "submit", "wait"} /\ inv'[i] # inv[i]
             /\ ~StageDone(inv[i], inv'[i])) =>
            /\ IsFailed(inv'[i].outcome)
            /\ Len(inv'[i].outcome.message) = 2
            /\ inv'[i].outcome.message[1] = "Aptos transaction failed: "
            /\ inv'[i].outcome.message[2] \in StageReasons(inv[i])
            /\ inv'[i].pc = "error"
       /\ IsFailed(inv[i].outcome) => inv'[i].outcome = inv[i].outcome]_vars

\* C19 witness: a submitted transaction was committed as failed and the
\* invocation ended with that reason.
C19_Witness ==
  \E i \in Invocations :
    /\ IsFailed(inv[i].outcome)
    /\ inv[i].outcome.message = <<"Aptos transaction failed: ", "transaction failed">>
    /\ inv[i].tx \in CommittedTxs

\* C20: no two invocations submit transactions with the same sender and the same
\* sequence number, and no invocation fails on a sequence-number conflict.
C20_SerializedPerSigner ==
  /\ \A i, j \in Invocations :
       (i # j /\ Submitted(i) /\ Submitted(j)) =>
         ~(inv[i].tx.sender = inv[j].tx.sender /\ inv[i].tx.seq = inv[j].tx.seq)
  /\ \A i \in Invocations :
       IsFailed(inv[i].outcome) =>
         inv[i].outcome.message[2] \notin
           {"SEQUENCE_NUMBER_TOO_OLD", "sequence number already in mempool"}

\* C21: every store invocation terminates: once it is in storeMemoryOnChain, and
\* in particular once it waits for a submitted transaction, it ends with a
\* receipt or with an error, also when the transaction is never committed.
InStore(i) == inv[i].pc \in {"init", "build", "submit", "wait"}
StoreOver(i) == inv[i].outcome.kind \in {"receipt", "error"}

TransferStep ==
  /\ Len(events') = Len(events) + 1
  /\ events'[Len(events')].type = "MemoryTransferred"

RECURSIVE SumOfCounts(_)
SumOfCounts(addrs) ==
  IF addrs = {} THEN 0
  ELSE LET addr == CHOOSE x \in addrs : TRUE
       IN getUserMemoryCount(addr) + SumOfCounts(addrs \ {addr})

\* C36: no id occurs twice in one bucket, and the lengths of all buckets add up
\* to the number of records created.
C36_BucketsPartition ==
  /\ \A addr \in AllAddresses, id \in MemoryIds : Count(userMemories[addr], id) <= 1
  /\ SumOfCounts(AllAddresses) = getTotalMemories

\* C36 witness: two records were created, transferred between owners, and the
\* buckets of two owners hold one each.
C36_Witness ==
  /\ memoryCounter = 2
  /\ TransferIndices # {}
  /\ \E a, b \in Callers : a # b /\ Len(userMemories[a]) = 1 /\ Len(userMemories[b]) = 1

\* the calls storeMemoryOnChain makes for a transaction, in the order of the code
StageOrder == <<"build", "sign", "submit", "wait">>
StageCalls(i) == SelectSeq(inv[i].rpc, LAMBDA c : c # "getLedgerInfo")
StoreEnded(i) == IsConfirmed(inv[i].outcome) \/ IsFailed(inv[i].outcome)

\* C31: the calls of a store request are a prefix of build, sign, submit, wait;
\* the wait starts only when submit returned a pending transaction; a receipt
\* that is not mock is returned only from a wait on a transaction committed as
\* succeeded; a request is never both confirmed and failed, and once it is
\* either, its outcome, its calls and its transaction stay as they are.
C31_StagesState ==
  \A i \in Invocations :
    /\ \E n \in 0..Len(StageOrder) : StageCalls(i) = SubSeq(StageOrder, 1, n)
    /\ Count(inv[i].rpc, "sign") > 0 =>
         inv[i].tx # NoTx /\ inv[i].tx.signer # Null
    /\ IsConfirmed(inv[i].outcome) =>
         StageCalls(i) = StageOrder /\ CommittedFor(i) # {}
    /\ ~(IsConfirmed(inv[i].outcome) /\ IsFailed(inv[i].outcome))
    /\ IsFailed(inv[i].outcome) => inv[i].pc = "error"

C31_StageOrder ==
  /\ []C31_StagesState
  /\ [][\A i \in Invocations :
          /\ Count(inv'[i].rpc, "wait") > Count(inv[i].rpc, "wait") =>
               inv[i].pc = "submit" /\ inv[i].tx \in mempool'
          /\ (IsConfirmed(inv'[i].outcome) /\ ~IsConfirmed(inv[i].outcome)) =>
               /\ inv[i].pc = "wait"
               /\ inv[i].tx \in CommittedTxs
               /\ committed[VersionOf(inv[i].tx)].success
          /\ StoreEnded(i) =>
               /\ inv'[i].outcome = inv[i].outcome
               /\ inv'[i].rpc = inv[i].rpc
               /\ inv'[i].tx = inv[i].tx]_vars

\* C31 witness: one request was confirmed after all four calls and another
\* failed at the wait, after its transaction was submitted.
C31_Witness ==
  \E i, j \in Invocations :
    /\ IsConfirmed(inv[i].outcome)
    /\ StageCalls(i) = StageOrder
    /\ IsFailed(inv[j].outcome)
    /\ StageCalls(j) = StageOrder

\* what of a transaction does not depend on when it was built
TxContent(tx) ==
  [sender |-> tx.sender, signer |-> tx.signer, function |-> tx.function,
   ipfsHash |-> tx.ipfsHash]

\* C35: every transaction the pipeline builds has the master account as sender
\* and signer, whatever userAddress the request carries, every record on the
\* ledger is owned by the master account, and two requests that differ in
\* userAddress only build the same transaction.
C35_MasterOwnsAll ==
  /\ \A i \in Invocations :
       inv[i].tx # NoTx =>
         inv[i].tx.sender = masterAccount /\ inv[i].tx.signer = masterAccount
  /\ \A id \in ExistingIds : memories[id].owner = masterAccount
  /\ \A i, j \in Invocations :
       (/\ inv[i].tx # NoTx /\ inv[j].tx # NoTx
        /\ inv[i].ipfsHash = inv[j].ipfsHash
        /\ inv[i].userAddress # inv[j].userAddress) =>
         TxContent(inv[i].tx) = TxContent(inv[j].tx)

\* C35 witness: a request of a user with a wallet address and one of a user
\* without were both confirmed, and both records are owned by the master
\* account, which is not the user's address.
C35_Witness ==
  \E i, j \in Invocations :
    /\ inv[i].userAddress # Null
    /\ inv[i].userAddress # masterAccount
    /\ inv[j].userAddress = Null
    /\ IsConfirmed(inv[i].outcome) /\ IsConfirmed(inv[j].outcome)
    /\ Cardinality(ExistingIds) = 2
    /\ \A id \in ExistingIds : memories[id].owner = masterAccount

\* C37: the sender a transaction is built with and the account it is signed
\* with are the one master account, also when several invocations ran
\* initialize; when initialize returns, initialized is set and the master
\* account is not null, and from then on the master account is not replaced.
C37_OneMasterState ==
  /\ \A i \in Invocations :
       /\ inv[i].pc = "build" => inv[i].sender = masterAccount
       /\ inv[i].tx # NoTx =>
            inv[i].tx.signer = inv[i].tx.sender /\ inv[i].tx.sender = inv[i].sender
  /\ initialized => masterAccount # Null /\ aptos # Null

C37_OneMaster ==
  /\ []C37_OneMasterState
  /\ [][/\ initialized => initialized' /\ masterAccount' = masterAccount
        /\ \A i \in Invocations :
             (inv[i].pc = "init" /\ inv'[i].pc # "init") => initialized']_vars

\* C37 witness: two invocations each ran initialize on a service without a
\* private key, and each built and signed a transaction.
C37_Witness ==
  /\ env.privateKey = "none"
  /\ \A i \in 1..2 :
       /\ Count(inv[i].rpc, "getLedgerInfo") = 1
       /\ inv[i].tx # NoTx

\* the sum of the file sizes of a set of invocations
RECURSIVE SumOfSizes(_)
SumOfSizes(is) ==
  IF is = {} THEN 0
  ELSE LET i == CHOOSE x \in is : TRUE
       IN inv[i].fileSize + SumOfSizes(is \ {i})

DocsOf(i) == {k \in 1..Len(docs) : docs[k].inv = i}
Counted == {i \in Invocations : inv[i].pc = "done"}

\* C39: a request whose anchoring failed has no Memory document, added nothing
\* to totalMemories and storageUsed, ends with the error passed to next(), and
\* takes no further step; a document has isOnChain only when the anchoring of
\* its request returned success.
C39_FailedPersistsNothingState ==
  /\ \A i \in Invocations :
       IsFailed(inv[i].outcome) =>
         /\ DocsOf(i) = {}
         /\ i \notin Counted
         /\ inv[i].pc = "error"
         /\ inv[i].status = 500
  /\ userStats.totalMemories = Cardinality(Counted)
  /\ userStats.storageUsed = SumOfSizes(Counted)
  /\ \A k \in 1..Len(docs) :
       docs[k].isOnChain =>
         /\ inv[docs[k].inv].outcome.kind = "receipt"
         /\ inv[docs[k].inv].outcome.success

C39_FailedPersistsNothing ==
  /\ []C39_FailedPersistsNothingState
  /\ [][\A i \in Invocations :
          /\ (inv'[i] # inv[i] /\ IsFailed(inv'[i].outcome)) =>
               docs' = docs /\ userStats' = userStats
          /\ IsFailed(inv[i].outcome) => inv'[i] = inv[i]]_vars

\* C39 witness: one request failed at the wait and left nothing, another was
\* confirmed and its document is marked on-chain.
C39_Witness ==
  \E i, j \in Invocations :
    /\ IsFailed(inv[i].outcome)
    /\ Submitted(i)
    /\ inv[j].pc = "done"
    /\ \E k \in DocsOf(j) : docs[k].isOnChain
    /\ Len(docs) = 1
    /\ userStats.totalMemories = 1

\* ------------------------------------------------------------------ wallet authentication claims
Decided(a) == auth[a].pc \notin {"new", "refused"}
Accepted(a) == auth[a].isValid
Rejected(a) == auth[a].pc = "rejected"

\* the bytes a string of hex digits encodes
DecodeHex(s) ==
  [k \in 1..(Len(s) \div 2) |-> 16 * DigitValue(s[2 * k - 1]) + DigitValue(s[2 * k])]
WellFormedHex(s, bytes) ==
  /\ Len(stripPrefix(s)) = 2 * bytes
  /\ \A k \in 1..Len(stripPrefix(s)) : stripPrefix(s)[k] \in HexDigits

\* the documented encodings of a challenge
DocumentedEncodings(message, nonce) ==
  {message, PetraFormat(message, nonce),
   PetraFormat(message, nonce) \o <<"\nchainId: 1">>,
   PetraFormat(message, nonce) \o <<"\nchainId: 2">>}

\* the signature is the key's signature over one of the texts
SignedOver(signature, publicKey, texts) ==
  /\ WellFormedHex(signature, SignatureLength)
  /\ WellFormedHex(publicKey, PublicKeyLength)
  /\ LET signatureBytes == DecodeHex(stripPrefix(signature))
         publicKeyBytes == DecodeHex(stripPrefix(publicKey))
     IN \E text \in texts : signatureBytes = Ed25519Sign(publicKeyBytes, encode(text))

\* the request carries a challenge and a signature that verifies for one of its
\* documented encodings
CryptoVerifies(req) ==
  SignedOver(req.signature, req.publicKey,
    (IF Present(req.fullMessage) THEN {req.fullMessage} ELSE {})
      \cup (IF Present(req.message) /\ Present(req.nonce)
            THEN DocumentedEncodings(req.message, req.nonce) ELSE {}))

\* CryptoVerifies and addressMatches of each request explored, computed once
VerifiesFor == [req \in WalletRequests |-> CryptoVerifies(req)]
MatchesFor == [req \in WalletRequests |-> addressMatches(req)]

\* the answer of an acceptance without what names the user
Envelope(response) == [f \in DOMAIN response \ {"user", "token"} |-> response[f]]
VerifiedEnvelope ==
  [status |-> 200, success |-> TRUE, message |-> "Wallet authentication successful"]

\* C22: a request whose signature verifies for a documented encoding of its
\* challenge is accepted by a cryptographic method, and its answer carries no
\* reduced-assurance flag.
C22_VerifiedAccepted ==
  \A a \in Attempts :
    (/\ Decided(a)
     /\ ~(/\ Accepted(a)
          /\ auth[a].method \in {"fullMessage", "alternative"}
          /\ auth[a].pc = "done" => Envelope(auth[a].response) = VerifiedEnvelope)) =>
      ~VerifiesFor[auth[a].req]

\* C22 witness: key 1 signed "login" with nonce "n1" in the Petra format and the
\* attempt was answered.
C22_Witness ==
  \E a \in Attempts : auth[a].req = GoodRequest /\ auth[a].pc = "done"

\* C23: when no cryptographic check passes, the attempt is accepted only if the
\* structure check passes and the address has the fixed format, the answer of
\* such an acceptance differs from that of a verified one, and every other
\* attempt is rejected with "Invalid wallet signature".
C23_FallbackFlagged ==
  \A a \in Attempts :
    (Decided(a) /\ ~CryptoVerifies(auth[a].req)) =>
      LET fallback == /\ validateSignatureStructure(auth[a].req.signature, auth[a].req.publicKey)
                      /\ addressFormat(auth[a].req.address)
      IN /\ Accepted(a) => fallback
         /\ (Accepted(a) /\ auth[a].pc = "done") =>
              Envelope(auth[a].response) # VerifiedEnvelope
         /\ ~fallback =>
              /\ Rejected(a)
              /\ auth[a].response.status = 401
              /\ auth[a].response.message = "Invalid wallet signature"

\* two requests that differ in the claimed address only
SameButAddress(req1, req2) ==
  /\ req1.address # req2.address
  /\ [req1 EXCEPT !.address = NoString] = [req2 EXCEPT !.address = NoString]

\* C24: two attempts that differ only in whether the address derived from the
\* public key equals the claimed address end in the same outcome.
C24_MismatchNotFatal ==
  \A a, b \in Attempts :
    (/\ Decided(a) /\ Decided(b)
     /\ SameButAddress(auth[a].req, auth[b].req)
     /\ addressFormat(auth[a].req.address) = addressFormat(auth[b].req.address)
     /\ MatchesFor[auth[a].req] # MatchesFor[auth[b].req]) =>
      /\ Accepted(a) = Accepted(b)
      /\ Rejected(a) = Rejected(b)
      /\ auth[a].method = auth[b].method

\* C24 witness: the wallet's request and the same request claiming the address
\* of another key were both accepted.
C24_Witness ==
  \E a, b \in Attempts :
    /\ auth[a].req = GoodRequest
    /\ auth[b].req = [GoodRequest EXCEPT !.address = Address2]
    /\ Accepted(a) /\ Accepted(b)
    /\ auth[b].pc = "done"

\* C25: a token is returned only by an accepted attempt, for a user whose
\* aptosAddress is the claimed address; an attempt that is rejected or refused
\* creates no user, updates no user and returns no token.
C25_TokenScoped ==
  \A a \in Attempts :
    /\ "token" \in DOMAIN auth[a].response =>
         /\ Accepted(a)
         /\ auth[a].response.token.id \in 1..Len(users)
         /\ users[auth[a].response.token.id].aptosAddress = auth[a].req.address
         /\ auth[a].response.user.aptosAddress = auth[a].req.address
    /\ auth[a].pc \in {"rejected", "refused"} =>
         /\ ~Accepted(a)
         /\ auth[a].user = NoUser
         /\ "token" \notin DOMAIN auth[a].response

C25_IssuedOnlyWhenAccepted ==
  /\ []C25_TokenScoped
  /\ [][/\ users' # users => \E a \in Attempts : Accepted(a) /\ auth'[a] # auth[a]
        /\ \A a \in Attempts :
             /\ auth[a].pc \in {"rejected", "refused"} => auth'[a] = auth[a]
             /\ (auth'[a] # auth[a] /\ auth'[a].pc \in {"rejected", "refused"}) =>
                  users' = users]_vars

\* C25 witness: a token was returned for a user created by the attempt, after
\* another attempt had been rejected.
C25_Witness ==
  \E a, b \in Attempts :
    /\ auth[a].pc = "rejected"
    /\ auth[b].pc = "done"
    /\ auth[b].req.address = Address2
    /\ users[auth[b].response.token.id].aptosAddress = Address2

\* C26: once an attempt with a nonce and a signature has completed, accepted or
\* rejected, no later attempt presenting the same nonce and signature is accepted.
SameChallenge(req1, req2) ==
  /\ req1.signature = req2.signature
  /\ req1.nonce = req2.nonce
  /\ req1.message = req2.message
  /\ req1.fullMessage = req2.fullMessage

C26_NonceSingleUse ==
  \A a, b \in Attempts :
    (a < b /\ Decided(a) /\ Decided(b) /\ SameChallenge(auth[a].req, auth[b].req)) =>
      ~Accepted(b)

\* the checks of an attempt, in the order of the route
CheckOrder == <<"address", "fullMessage", "alternative", "structure">>
\* s keeps the order of t, whose elements are distinct: each element of s is
\* in t, and their places in t increase
IsSubSeq(s, t) ==
  LET place(x) == CHOOSE j \in 1..Len(t) : t[j] = x
  IN /\ \A k \in 1..Len(s) : \E j \in 1..Len(t) : t[j] = s[k]
     /\ \A k \in 1..(Len(s) - 1) : place(s[k]) < place(s[k + 1])
FieldsPresent(req) ==
  Present(req.address) /\ Present(req.publicKey) /\ Present(req.signature)

\* C32: an attempt with address, public key and signature present makes the
\* address check first, then the signature checks in the order of the route,
\* the structure check only when every cryptographic check that applies was
\* made and none verified, and it is then accepted or rejected, never both and
\* never neither.
C32_AttemptOrder ==
  \A a \in Attempts :
    (auth[a].pc # "new" /\ FieldsPresent(auth[a].req)) =>
      /\ Decided(a)
      /\ Len(auth[a].trace) >= 2
      /\ auth[a].trace[1] = "address"
      /\ IsSubSeq(auth[a].trace, CheckOrder)
      /\ "structure" \in Range(auth[a].trace) =>
           /\ Present(auth[a].req.fullMessage) => "fullMessage" \in Range(auth[a].trace)
           /\ (Present(auth[a].req.message) /\ Present(auth[a].req.nonce)) =>
                "alternative" \in Range(auth[a].trace)
           /\ ~VerifiesFor[auth[a].req]
      /\ Accepted(a) # Rejected(a)
      /\ Accepted(a) => auth[a].pc \in {"findOne", "create", "save", "balance", "done", "error"}

\* C32 witness: an attempt made the address check, the check of the message
\* formats and the structure check, and was rejected.
C32_Witness ==
  \E a \in Attempts :
    /\ auth[a].trace = <<"address", "alternative", "structure">>
    /\ Rejected(a)

\* the place of a text in the order claimed for the encodings of a challenge:
\* 1 for a domain-separated message with the nonce, 2 for the message with the
\* nonce appended, 3 for the message alone, 0 for any other text
EncodingRank(req, text) ==
  IF text = req.message THEN 3
  ELSE IF text = req.message \o req.nonce THEN 2
  ELSE IF text \in {req.fullMessage, PetraFormat(req.message, req.nonce)} THEN 1
  ELSE 0

\* C33: the texts a signature is verified against are, in this order, the
\* domain-separated message with the nonce, the message with the nonce
\* appended, the message alone; no other text is tried, and a text is tried
\* only when the signature verified for none of the texts before it.
C33_EncodingOrder ==
  \A a \in Attempts :
    Decided(a) =>
      LET req == auth[a].req
          tried == auth[a].encodings
      IN /\ \A k \in 1..Len(tried) : EncodingRank(req, tried[k]) # 0
         /\ \A k, l \in 1..Len(tried) :
              k < l => EncodingRank(req, tried[k]) <= EncodingRank(req, tried[l])
         /\ \A k \in 1..(Len(tried) - 1) :
              ~SignedOver(req.signature, req.publicKey, {tried[k]})

\* the attempt is a link-wallet request
IsLink(a) == auth[a].linker # 0

\* C38: no two users have the same aptosAddress, whatever the interleaving of
\* wallet logins and link-wallet requests; a link-wallet request is saved only
\* when no other user has the address, and one that finds the address with
\* another user, at findOne or at the save, ends refused with every user
\* unchanged.
C38_UniqueState ==
  \A id1, id2 \in 1..Len(users) :
    (id1 # id2 /\ Present(users[id1].aptosAddress)) =>
      users[id1].aptosAddress # users[id2].aptosAddress

DocumentedFormats == {"raw", "petra", "chain1", "chain2"}

\* the signature passed was made with the key and for the challenge of the call
MadeFor(signing, message, nonce, publicKey) ==
  /\ signing.key = DecodeHex(stripPrefix(publicKey))
  /\ signing.message = message
  /\ signing.format = "raw" \/ signing.nonce = nonce

\* the signature passed is the key's signature over a documented encoding of
\* the challenge of the call
OverDocumented(message, signature, publicKey, nonce) ==
  SignedOver(signature, publicKey, DocumentedEncodings(message, nonce))

C28_DecodeFailureDistinct ==
  probe.fn = "verifyPetraSignature" =>
    LET fullMessage == probe.args[1]
        signature == probe.args[2]
        publicKey == probe.args[3]
    IN IF /\ WellFormedHex(signature, SignatureLength)
          /\ WellFormedHex(publicKey, PublicKeyLength)
       THEN /\ ~probe.out.threw
            /\ probe.out.value = SignedOver(signature, publicKey, {fullMessage})
       ELSE probe.out.threw

\* C29: hexToUint8Array, on a string without its prefix, fails when the string
\* has odd length or holds a character that is no hex digit, and gives the bytes
\* the string encodes otherwise.
C29_InvalidEncoding ==
  probe.fn = "hexToUint8Array" =>
    LET hexString == stripPrefix(probe.args[1])
    IN IF Len(hexString) % 2 # 0 \/ \E k \in 1..Len(hexString) : hexString[k] \notin HexDigits
       THEN probe.out.threw
       ELSE ~probe.out.threw /\ probe.out.value = DecodeHex(hexString)

====
